---- MODULE Spec2Model ----
(***************************************************************************)
(* Model of the VideoTools scripts.                                        *)
(*                                                                         *)
(* Part 1: convert2mp4.py -- main / process_paths / process_single_file /  *)
(* get_video_info / convert_video run by a multiprocessing Pool over the   *)
(* candidates of a file tree.  External tools (ffprobe, HandBrakeCLI,      *)
(* ffmpeg) are the environment: each invocation is a nondeterministic      *)
(* choice over the outcomes the code distinguishes.                        *)
(*                                                                         *)
(* Part 2: the chapter texts -- embedded_mkv_chapters.convert_pbf_to_      *)
(* chapters writes an OGM chapter file from PotPlayer bookmarks,           *)
(* extract_video.parse_chapter_file reads such a file, and                 *)
(* write_chapters_for_oldcsv.timestamp_to_seconds reads a clock text.      *)
(* Texts are sequences of characters, so that formatting and parsing are   *)
(* computed as the code computes them.                                     *)
(*                                                                         *)
(* Part 3: the reconciliation of chapter titles --                         *)
(* write_chapters.update_chapter_xml and                                   *)
(* write_chapters_for_oldcsv.update_xml_chapters.                          *)
(*                                                                         *)
(* Parts 4 to 8: the scripts that work on files one after the other, each  *)
(* with the files it creates and removes -- write_chapters_for_oldcsv      *)
(* (process_directory / process_mkv_file), write_chapters                  *)
(* (process_mkv_file / write_chapters_to_mkv), embedded_mkv_chapters.main, *)
(* extract_video (main / process_mkv_file / extract_chapter) and           *)
(* normalize_audio.main.  Tools and file operations are the environment:   *)
(* each ends in one of the ways the code distinguishes, an OSError         *)
(* included.  The chapters of an MKV file of extract_video are read with   *)
(* parse_chapter_file from the text convert_pbf_to_chapters writes, and    *)
(* the output files are kept by name in the folder of the MKV file.        *)
(***************************************************************************)
EXTENDS Integers, Sequences, FiniteSets, TLC

(* ---------------------------------------------------------------------- *)
(* Bounds                                                                  *)
(* ---------------------------------------------------------------------- *)
MaxRoots == 2        \* at most this many command-line root arguments
MaxJobs == 2         \* at most this many candidates in the first run

(* ---------------------------------------------------------------------- *)
(* Program constants                                                       *)
(* ---------------------------------------------------------------------- *)
VIDEO_EXTENSIONS ==
    {".mp4", ".avi", ".mkv", ".mov", ".wmv", ".flv", ".webm", ".m4v", ".ts"}

SUPPORTED_VIDEO_CODECS == {"h264", "hevc", "av1"}
SUPPORTED_AUDIO_CODECS == {"aac", "mp3"}

POOL_PROCESSES == 4

(* ---------------------------------------------------------------------- *)
(* Paths and the file tree                                                 *)
(* ---------------------------------------------------------------------- *)
\* A path is its stem and its suffix (pathlib's .stem / .suffix).
MkPath(stem, ext) == [stem |-> stem, ext |-> ext]

\* The directory tree in the order rglob("*") lists it.
TreeOrder ==
    << MkPath("a", ".avi"), MkPath("a", ".MKV"), MkPath("a", ".mp4"),
       MkPath("b", ".mp4"), MkPath("n", ".txt") >>

RECURSIVE SeqRange(_, _)
SeqRange(s, n) == IF n = 0 THEN {} ELSE SeqRange(s, n - 1) \cup {s[n]}

Paths == SeqRange(TreeOrder, Len(TreeOrder))

\* The root argument naming the directory that holds every path of the tree.
DirRoot == MkPath("videos", "")

\* str.lower() on the suffixes that occur.
Lower(ext) == IF ext = ".MKV" THEN ".mkv" ELSE ext

is_file(tree, p) == p \in Paths /\ tree[p] # "absent"

is_dir(p) == p = DirRoot

get_output_path(input_path) == [input_path EXCEPT !.ext = ".mp4"]

\* Mutant: "and" for "or".
needs_encode_and(video_codec, audio_codec) ==
    /\ video_codec \notin SUPPORTED_VIDEO_CODECS
    /\ audio_codec \notin SUPPORTED_AUDIO_CODECS

needs_encode(video_codec, audio_codec) ==
    \/ video_codec \notin SUPPORTED_VIDEO_CODECS
    \/ audio_codec \notin SUPPORTED_AUDIO_CODECS

IsCandidate(tree, p) == is_file(tree, p) /\ Lower(p.ext) \in VIDEO_EXTENSIONS

RECURSIVE RglobVideos(_, _)
RglobVideos(tree, n) ==
    IF n = 0 THEN << >>
    ELSE LET rest == RglobVideos(tree, n - 1)
         IN  IF IsCandidate(tree, TreeOrder[n])
             THEN Append(rest, TreeOrder[n]) ELSE rest

find_video_files(tree, root) ==
    IF IsCandidate(tree, root) THEN << root >>
    ELSE IF is_dir(root) THEN RglobVideos(tree, Len(TreeOrder))
    ELSE << >>

RECURSIVE CollectVideoFiles(_, _, _)
CollectVideoFiles(tree, paths, n) ==
    IF n = 0 THEN << >>
    ELSE CollectVideoFiles(tree, paths, n - 1) \o find_video_files(tree, paths[n])

(* ---------------------------------------------------------------------- *)
(* State                                                                   *)
(* ---------------------------------------------------------------------- *)
VARIABLES
    tree,       \* the file tree: path -> "absent" | "partial" | "data"
    codecOf,    \* what ffprobe reports for a path: <<video codec, audio codec>>
    argv,       \* sys.argv[1:], the root arguments
    mainPc,     \* where main / process_paths stands
    jobs,       \* process_args with each pool task's progress
    run,        \* which run of the batch this is, the first or the second
    exitStatus  \* the process's exit status, -1 until it exits

convertVars == << tree, codecOf, argv, mainPc, jobs, run, exitStatus >>

VARIABLES
    pbf,          \* the lines of the bookmark file
    chPc,         \* where the chapter scripts stand
    decoded,      \* convert_pbf_to_chapters: bookmarks before line 97
    bookmarks,    \* convert_pbf_to_chapters: bookmarks as written
    chapterFile,  \* the lines of the OGM chapter file
    chapters,     \* what parse_chapter_file returned
    seconds       \* what timestamp_to_seconds returned for each time line

chapterVars ==
    << pbf, chPc, decoded, bookmarks, chapterFile, chapters, seconds >>

VARIABLES
    records,       \* the record set read from the CSV: (start, title)
    atoms,         \* the ChapterAtom nodes of the XML: (time, title)
    rcPc,          \* where the reconciliation stands, and which script
    updatedAtoms,  \* the ChapterAtom nodes as written back
    matched        \* for each atom, whether the lookup found a record

reconVars == << records, atoms, rcPc, updatedAtoms, matched >>

VARIABLES
    ocWalk,         \* how many .mkv files os.walk has still to yield
    ocPc,           \* where write_chapters_for_oldcsv stands
    ocJob,          \* the process_mkv_file call that is running
    ocReturned,     \* the process_mkv_file calls that returned, in order
    success_count,  \* process_directory's success_count
    total_count     \* process_directory's total_count

oldcsvVars ==
    << ocWalk, ocPc, ocJob, ocReturned, success_count, total_count >>

VARIABLES
    wcFiles,   \* how many of main's mkv_files are still to be processed
    wcPc,      \* where write_chapters stands
    wcJob,     \* the process_mkv_file call that is running
    wcDone     \* the process_mkv_file calls that returned, in order

newcsvVars == << wcFiles, wcPc, wcJob, wcDone >>

VARIABLES
    emArgs,    \* how many of sys.argv[1:] embedded_mkv_chapters has still to take
    emPc,      \* where embedded_mkv_chapters.main stands
    emJob,     \* the bookmark file that is being processed
    emDone     \* the arguments main is through with, in order

embedVars == << emArgs, emPc, emJob, emDone >>

VARIABLES
    exFiles,    \* how many MKV files extract_video.main has still to take
    exPc,       \* where extract_video stands
    exFile,     \* process_mkv_file: the MKV file it is at or was at last
    exJob,      \* the extract_chapter call that is running
    exDone,     \* the extract_chapter calls for this MKV file that are over
    exSuccess   \* main's success

extractVars == << exFiles, exPc, exFile, exJob, exDone, exSuccess >>

VARIABLES
    naFiles,   \* how many of normalize_audio's video_files are still to come
    naPc,      \* where normalize_audio.main stands
    naJob,     \* the file that is being processed
    naDone     \* the files main is through with, in order

normVars == << naFiles, naPc, naJob, naDone >>

\* The scripts that work on files one after the other.
scriptVars == << oldcsvVars, newcsvVars, embedVars, extractVars, normVars >>

vars == << convertVars, chapterVars, reconVars, scriptVars >>

\* The chapter scripts are not run.
ChaptersIdle ==
    /\ pbf = << >>
    /\ chPc = "idle"
    /\ decoded = << >>
    /\ bookmarks = << >>
    /\ chapterFile = << >>
    /\ chapters = [raised |-> FALSE, list |-> << >>]
    /\ seconds = << >>

\* convert2mp4 is not run.
ConvertIdle ==
    /\ tree = [p \in Paths |-> "absent"]
    /\ codecOf = [p \in Paths |-> << "", "" >>]
    /\ argv = << >>
    /\ mainPc = "idle"
    /\ jobs = << >>
    /\ run = 0
    /\ exitStatus = -1

\* No reconciliation is run.
ReconIdle ==
    /\ records = << >>
    /\ atoms = << >>
    /\ rcPc = "idle"
    /\ updatedAtoms = << >>
    /\ matched = << >>

\* No job of write_chapters_for_oldcsv: what a call that is not running
\* holds.
NoOldcsvJob ==
    [ csv |-> "none", temp_xml |-> "unbound", tempFile |-> "absent",
      tools |-> << >>, completed |-> {}, writeRc |-> "none",
      partial |-> FALSE, raisedIn |-> "none", result |-> "none" ]

\* write_chapters_for_oldcsv is not run.
OldcsvIdle ==
    /\ ocWalk = 0
    /\ ocPc = "idle"
    /\ ocJob = NoOldcsvJob
    /\ ocReturned = << >>
    /\ success_count = 0
    /\ total_count = 0

\* No job of write_chapters: whether the CSV and the XML existed before the
\* job and exist now, the tools run, how mkvpropedit ended, where an
\* exception was raised, how the job ended.
NoNewcsvJob ==
    [ csvBefore |-> FALSE, xmlBefore |-> FALSE, csv |-> FALSE, xml |-> FALSE,
      tools |-> << >>, rc |-> "none", raisedIn |-> "none", ended |-> "none" ]

\* write_chapters is not run.
NewcsvIdle ==
    /\ wcFiles = 0
    /\ wcPc = "idle"
    /\ wcJob = NoNewcsvJob
    /\ wcDone = << >>

\* No bookmark file of embedded_mkv_chapters: the temporary chapter file
\* ("none" until convert_pbf_to_chapters wrote it, then "exists" or
\* "removed"), the tools run, how mkvpropedit ended, how the job ended.
NoEmbedJob ==
    [ chapter_file |-> "none", tools |-> << >>, rc |-> "none",
      ended |-> "none" ]

\* embedded_mkv_chapters is not run.
EmbedIdle ==
    /\ emArgs = 0
    /\ emPc = "idle"
    /\ emJob = NoEmbedJob
    /\ emDone = << >>

\* No extract_chapter call: the chapter's number and name, its output file
\* ("absent", "partial"
\* or "data"), the temp file ("none" before get_temp_path, then "exists" or
\* "absent"), the tools run, what the try block is about to return when
\* the finally clause starts (pending), whether an unlink of the temp file
\* raised, and how the call ended (returned: "True", "False" or "raised").
NoExtractJob ==
    [ chapter_number |-> 0, chapter_name |-> << >>,
      output |-> "absent", temp |-> "none", tools |-> << >>,
      pending |-> "none", unlinkFailed |-> FALSE, returned |-> "none" ]

\* No MKV file of extract_video: the bookmarks put into it (embedded), the
\* chapters get_chapters returned (list) and how many of them the loop has
\* still to take, the success of process_mkv_file, the output files in the
\* folder when process_mkv_file began (before) and now (dir), the chapters
\* skipped and those handed to extract_chapter, by their place in the list,
\* and how process_mkv_file ended ("returned" or "raised").
NoExtractFile ==
    [ chapters |-> 0, success |-> TRUE, embedded |-> << >>, list |-> << >>,
      before |-> {}, dir |-> {}, skipped |-> {}, attempted |-> {},
      ended |-> "none" ]

\* extract_video is not run.
ExtractIdle ==
    /\ exFiles = 0
    /\ exPc = "idle"
    /\ exFile = NoExtractFile
    /\ exJob = NoExtractJob
    /\ exDone = << >>
    /\ exSuccess = TRUE

\* No file of normalize_audio: the original video file ("unchanged",
\* "replaced" by the normalized file, or "damaged" by a copy that broke
\* off), the temp file ("none" before it is created, then "exists" or
\* "absent"), whether normalize_audio went through, where an exception was
\* raised, whether an unlink of the temp file raised, how the pass ended.
NoNormJob ==
    [ original |-> "unchanged", temp |-> "none", normalized |-> FALSE,
      raisedIn |-> "none", unlinkFailed |-> FALSE, ended |-> "none" ]

\* normalize_audio is not run.
NormIdle ==
    /\ naFiles = 0
    /\ naPc = "idle"
    /\ naJob = NoNormJob
    /\ naDone = << >>

\* None of the file-by-file scripts is run.
ScriptsIdle ==
    OldcsvIdle /\ NewcsvIdle /\ EmbedIdle /\ ExtractIdle /\ NormIdle

\* What the steps of convert2mp4 leave alone, what the steps of the chapter
\* scripts leave alone, what the reconciliation leaves alone, and what the
\* file-by-file scripts leave alone.
otherVars == << chapterVars, reconVars, scriptVars >>
outsideChapters == << convertVars, reconVars, scriptVars >>
outsideRecon == << convertVars, chapterVars, scriptVars >>
outsideScripts == << convertVars, chapterVars, reconVars >>
outsideOldcsv ==
    << outsideScripts, newcsvVars, embedVars, extractVars, normVars >>
outsideNewcsv ==
    << outsideScripts, oldcsvVars, embedVars, extractVars, normVars >>
outsideEmbed ==
    << outsideScripts, oldcsvVars, newcsvVars, extractVars, normVars >>
outsideExtract ==
    << outsideScripts, oldcsvVars, newcsvVars, embedVars, normVars >>
outsideNorm ==
    << outsideScripts, oldcsvVars, newcsvVars, embedVars, extractVars >>

VideoCodecs == {"h264", "hevc", "av1", "vp9", "mpeg4"}
\* "" is ffprobe's empty output for a file without an audio stream.
AudioCodecs == {"aac", "mp3", "opus", "ac3", ""}

FileStates == {"absent", "partial", "data"}
TmpStates == {"none", "absent", "empty", "data"}

\* One pool task: its arguments (index, file, total), where it stands (pc),
\* what it has seen and done so far (the progress line, the codecs, how the
\* video probe ended (vprobe: "fail", "empty", "ok" or "oserror"), whether
\* the output existed at the exists-check, the temp file, how each stage
\* ended: rc1 and the temp file it left (out1), rc2), how often each tool,
\* the finally clause and unlink were called, what was logged, and how
\* convert_video / process_single_file ended (result).
NewJob(i, f, total) ==
    [ index |-> i, file |-> f, total |-> total, pc |-> "queued",
      progress |-> << >>, vcodec |-> "none", acodec |-> "none",
      vprobe |-> "none", existed |-> "unchecked", tmp |-> "none",
      rc1 |-> "none", out1 |-> "none", rc2 |-> "none",
      probes |-> 0, encodes |-> 0, copies |-> 0, strips |-> 0,
      cleanups |-> 0, unlinks |-> 0, unlinkFailed |-> FALSE,
      failedStage |-> "none", reason |-> "none", log |-> {},
      result |-> "none" ]

\* Mutant: the total is the number of candidates counted so far.
ProcessArgsRunningTotal(video_files) ==
    [ k \in 1..Len(video_files) |-> NewJob(k - 1, video_files[k], k) ]

\* process_args = [(i, f, total_files) for i, f in enumerate(video_files)]
ProcessArgs(video_files) ==
    [ k \in 1..Len(video_files) |-> NewJob(k - 1, video_files[k], Len(video_files)) ]

JobIds == DOMAIN jobs

Running(j) == jobs[j].pc \notin {"queued", "done"}

Set(j, rec) == jobs' = [jobs EXCEPT ![j] = rec]

(* ---------------------------------------------------------------------- *)
(* Initial states                                                          *)
(* ---------------------------------------------------------------------- *)
\* What the files of the tree hold, as ffprobe reports it.
BatchCodecs ==
    [ p \in Paths |->
        IF p = MkPath("a", ".avi") THEN << "mpeg4", "" >>
        ELSE IF p = MkPath("a", ".MKV") THEN << "h264", "aac" >>
        ELSE << "av1", "mp3" >> ]

\* The root arguments tried: the directory and one of its files.
RootChoices == {DirRoot, MkPath("a", ".avi")}

\* The argument lists tried: any number of roots up to MaxRoots, repeats
\* and overlaps included, directories first (the order of the roots only
\* fixes the order of the candidates).
RootArgs ==
    { a \in UNION { [1..n -> RootChoices] : n \in 0..MaxRoots } :
        \A i \in DOMAIN a, k \in DOMAIN a :
            (i < k /\ is_dir(a[k])) => is_dir(a[i]) }

\* Before the first run every input file is absent or complete, the text
\* file is there, and a.mp4 is absent, complete, or what an earlier failed
\* run left of it.
InitialTrees ==
    { t \in [Paths -> FileStates] :
        /\ t[MkPath("n", ".txt")] = "data"
        /\ \A p \in Paths : t[p] = "partial" => p = MkPath("a", ".mp4") }

InitCommon ==
    /\ mainPc = "main"
    /\ jobs = << >>
    /\ run = 1
    /\ exitStatus = -1

Init ==
    /\ tree \in InitialTrees
    /\ argv \in RootArgs
    /\ Len(CollectVideoFiles(tree, argv, Len(argv))) <= MaxJobs
    /\ codecOf = BatchCodecs
    /\ InitCommon
    /\ ChaptersIdle
    /\ ReconIdle
    /\ ScriptsIdle

(* ---------------------------------------------------------------------- *)
(* main and process_paths                                                  *)
(* ---------------------------------------------------------------------- *)
\* main: the usage check on sys.argv.
MainStart ==
    /\ mainPc = "main"
    /\ IF Len(argv) < 1
       THEN /\ mainPc' = "exited"
            /\ exitStatus' = 1
       ELSE /\ mainPc' = "collect"
            /\ UNCHANGED exitStatus
    /\ UNCHANGED << tree, codecOf, argv, jobs, run >>
    /\ UNCHANGED otherVars

\* process_paths: enumerate every candidate of every root, then build
\* process_args; with no candidate, return at once.
Collect ==
    /\ mainPc = "collect"
    /\ LET video_files == CollectVideoFiles(tree, argv, Len(argv))
       IN  IF Len(video_files) = 0
           THEN /\ mainPc' = "returned"
                /\ jobs' = << >>
           ELSE /\ mainPc' = "pool"
                /\ jobs' = ProcessArgs(video_files)
    /\ UNCHANGED << tree, codecOf, argv, run, exitStatus >>
    /\ UNCHANGED otherVars

\* pool.map returns once every task has returned.
PoolJoin ==
    /\ mainPc = "pool"
    /\ \A j \in JobIds : jobs[j].pc = "done"
    /\ mainPc' = "returned"
    /\ UNCHANGED << tree, codecOf, argv, jobs, run, exitStatus >>
    /\ UNCHANGED otherVars

\* main: wait_for_key, then the interpreter exits normally.
MainExitStatus == 0

WaitKeyAndExit ==
    /\ mainPc = "returned"
    /\ mainPc' = "exited"
    /\ exitStatus' = MainExitStatus
    /\ UNCHANGED << tree, codecOf, argv, jobs, run >>
    /\ UNCHANGED otherVars

Succeeded(job) == job.result \in {"skipped", "converted"}

\* The second run: after a run in which convert_video returned True for
\* every candidate, the script is run again with the same arguments.  (A run
\* that follows a failed one is a first run on the tree the failure left.)
Rerun ==
    /\ mainPc = "exited"
    /\ exitStatus = 0
    /\ run = 1
    /\ \A j \in JobIds : Succeeded(jobs[j])
    /\ run' = run + 1
    /\ jobs' = << >>
    /\ mainPc' = "main"
    /\ exitStatus' = -1
    /\ UNCHANGED << tree, codecOf, argv >>
    /\ UNCHANGED otherVars

(* ---------------------------------------------------------------------- *)
(* External tools: the outcomes the code distinguishes                     *)
(* ---------------------------------------------------------------------- *)
\* subprocess.run(..., check=True) for ffprobe: exit 0, CalledProcessError
\* (a SubprocessError), or an OSError because the tool cannot be started.
ProbeOutcomes == {"ok", "fail", "oserror"}

\* subprocess.run for HandBrakeCLI / ffmpeg: exit 0, non-zero exit, or an
\* OSError because the tool cannot be started.  (Called without check= or
\* timeout=, subprocess.run raises no SubprocessError, so run_command's
\* except clause catches nothing.)
RunOutcomes == {"rc0", "rcfail", "oserror"}

\* Mutant: an empty stdout is returned as it is.
get_codec_info_raw(outcome, stdout) ==
    IF outcome = "ok" THEN stdout ELSE "unknown"

\* get_codec_info: the stripped stdout, or "unknown" when the probe failed
\* or printed nothing.
get_codec_info(outcome, stdout) ==
    IF outcome = "ok" /\ stdout # "" THEN stdout ELSE "unknown"

\* Mutant: the exit status is not looked at.
run_command_unchecked(outcome) == TRUE

\* run_command's return value (it raises on "oserror").
run_command(outcome) == outcome = "rc0"

\* Path.exists()
exists(t, p) == t[p] # "absent"

\* Mutant: no exists-check.
OutputExistsNever(t, output_path) == FALSE

\* convert_video line 179: skip when the output path exists.
OutputExists(t, output_path) == exists(t, output_path)

\* Mutant: the size is not looked at.
TempMissingOnly(tmp) == tmp = "absent"

\* convert_video line 207: the temp file is missing or has size 0.
TempMissingOrEmpty(tmp) == tmp \in {"absent", "empty"}

\* Mutant: the metadata-strip command is given another path to write.
StripTargetOther(input_path) == MkPath("b", ".mp4")

\* The target the metadata-strip command writes (get_ffmpeg_command's last
\* argument).
StripTarget(input_path) == get_output_path(input_path)

(* ---------------------------------------------------------------------- *)
(* process_single_file, one pool task per candidate                        *)
(* ---------------------------------------------------------------------- *)
\* A pool worker takes the next task in order and logs its progress line.
Dispatch(j) ==
    /\ mainPc = "pool"
    /\ jobs[j].pc = "queued"
    /\ \A i \in JobIds : i < j => jobs[i].pc # "queued"
    /\ Cardinality({ i \in JobIds : Running(i) }) < POOL_PROCESSES
    /\ Set(j, [jobs[j] EXCEPT !.pc = "info",
                              !.progress = << jobs[j].index + 1, jobs[j].total >>])
    /\ UNCHANGED << tree, codecOf, argv, mainPc, run, exitStatus >>
    /\ UNCHANGED otherVars

\* Mutant: no handler, the exception takes the worker down with the task
\* unfinished.
RaisedKillsWorker(job) == [job EXCEPT !.pc = "crashed", !.result = "raised"]

\* How a task ends when an exception reaches process_single_file's handler.
Raised(job) ==
    [job EXCEPT !.pc = "done", !.result = "raised",
                !.log = @ \cup {"file_error"}]

\* What the video probe did: could not be started, exited non-zero, exited
\* zero with nothing on stdout, or exited zero with a codec name.
VideoProbeResult(outcome, stdout) ==
    IF outcome = "ok" THEN (IF stdout = "" THEN "empty" ELSE "ok") ELSE outcome

\* get_video_info: is_file, the video probe, and the audio probe only if the
\* video codec is known.
GetVideoInfo(j) ==
    /\ jobs[j].pc = "info"
    /\ LET job == jobs[j]
           f == job.file
       IN  IF ~is_file(tree, f)
           THEN Set(j, [job EXCEPT !.pc = "done", !.result = "noinfo"])
           ELSE \E vo \in ProbeOutcomes, ao \in ProbeOutcomes :
                  LET vcodec == get_codec_info(vo, codecOf[f][1])
                      acodec == get_codec_info(ao, codecOf[f][2])
                      seen == VideoProbeResult(vo, codecOf[f][1])
                  IN  IF vo = "oserror"
                      THEN Set(j, [Raised(job) EXCEPT !.probes = 1,
                                                      !.vprobe = seen])
                      ELSE IF vcodec = "unknown"
                      THEN Set(j, [job EXCEPT !.pc = "done", !.probes = 1,
                                              !.vprobe = seen,
                                              !.vcodec = vcodec,
                                              !.log = @ \cup {"no_codec"},
                                              !.result = "noinfo"])
                      ELSE IF ao = "oserror"
                      THEN Set(j, [Raised(job) EXCEPT !.probes = 2,
                                                      !.vprobe = seen,
                                                      !.vcodec = vcodec])
                      ELSE Set(j, [job EXCEPT !.pc = "convert", !.probes = 2,
                                              !.vprobe = seen,
                                              !.vcodec = vcodec,
                                              !.acodec = acodec])
    /\ UNCHANGED << tree, codecOf, argv, mainPc, run, exitStatus >>
    /\ UNCHANGED otherVars

\* convert_video up to the try block: the exists-check, then the temp file
\* (NamedTemporaryFile(delete=False) leaves an empty file, or raises).
ConvertStart(j) ==
    /\ jobs[j].pc = "convert"
    /\ LET job == jobs[j]
           output_path == get_output_path(job.file)
           was == IF exists(tree, output_path) THEN "yes" ELSE "no"
       IN  IF OutputExists(tree, output_path)
           THEN Set(j, [job EXCEPT !.pc = "done", !.existed = was,
                                   !.log = @ \cup {"skip"},
                                   !.result = "skipped"])
           ELSE \E made \in BOOLEAN :
                  IF made
                  THEN Set(j, [job EXCEPT !.pc = "stage1", !.existed = was,
                                          !.tmp = "empty"])
                  ELSE Set(j, [Raised(job) EXCEPT !.existed = was])
    /\ UNCHANGED << tree, codecOf, argv, mainPc, run, exitStatus >>
    /\ UNCHANGED otherVars

\* convert_video lines 194-198: which first-stage tool the job runs.
FirstStageTool(video_codec, audio_codec) ==
    IF needs_encode(video_codec, audio_codec) THEN "encode" ELSE "copy"

\* Path.exists() on the temp file.
TempExists(tmp) == tmp \in {"empty", "data"}

\* Mutant: the cleanup sits after the try block instead of in a finally
\* clause, so an exception skips it.
FinallySkippedByRaise(job) ==
    LET out == [job EXCEPT !.pc = "done"]
    IN  IF job.result = "raised"
        THEN { [out EXCEPT !.log = @ \cup {"file_error"}] }
        ELSE IF TempExists(job.tmp)
        THEN { [out EXCEPT !.cleanups = @ + 1, !.unlinks = @ + 1,
                           !.tmp = "absent"],
               [out EXCEPT !.cleanups = @ + 1, !.unlinks = @ + 1,
                           !.unlinkFailed = TRUE,
                           !.log = @ \cup {"unlink_error"}] }
        ELSE { [out EXCEPT !.cleanups = @ + 1] }

\* convert_video lines 222-227, the finally clause, run on the way out of
\* the try block, and the return into process_single_file (whose handler logs
\* an exception that got this far).  The unlink succeeds or raises; what it
\* raises is logged and dropped.  The set of ways the task can end.
Finally(job) ==
    LET out == [job EXCEPT
                  !.pc = "done", !.cleanups = @ + 1,
                  !.log = @ \cup (IF job.result = "raised"
                                  THEN {"file_error"} ELSE {})]
    IN  IF TempExists(job.tmp)
        THEN { [out EXCEPT !.unlinks = @ + 1, !.tmp = "absent"],
               [out EXCEPT !.unlinks = @ + 1, !.unlinkFailed = TRUE,
                           !.log = @ \cup {"unlink_error"}] }
        ELSE { out }

\* An exception leaves the try block.
RaiseInTry(job, stage) ==
    [job EXCEPT !.result = "raised", !.failedStage = stage,
                !.reason = "exception"]

\* run_command returned False after logging the tool's stderr (lines
\* 165-168); convert_video returns False.
StageFailed(job, stage) ==
    [job EXCEPT !.result = "failed", !.failedStage = stage, !.reason = "tool",
                !.log = @ \cup {"stderr"}]

\* convert_video lines 207-211: the temp file is missing or empty.
EmptyOutput(job) ==
    [job EXCEPT !.result = "failed", !.failedStage = "verify",
                !.reason = "empty", !.log = @ \cup {"empty_output"}]

\* convert_video lines 194-211: the first stage writes the temp file, then
\* the temp file is verified.  A tool that ran may leave the temp file
\* missing, empty or written, whatever its exit status.
FirstStage(j) ==
    /\ jobs[j].pc = "stage1"
    /\ \E o \in RunOutcomes, w \in {"absent", "empty", "data"} :
         /\ o = "oserror" => w = jobs[j].tmp
         /\ LET tool == FirstStageTool(jobs[j].vcodec, jobs[j].acodec)
                job == [jobs[j] EXCEPT
                          !.tmp = w, !.rc1 = o, !.out1 = w,
                          !.encodes = @ + (IF tool = "encode" THEN 1 ELSE 0),
                          !.copies = @ + (IF tool = "copy" THEN 1 ELSE 0)]
            IN  IF o = "oserror"
                THEN \E r \in Finally(RaiseInTry(job, "first")) : Set(j, r)
                ELSE IF ~run_command(o)
                THEN \E r \in Finally(StageFailed(job, "first")) : Set(j, r)
                ELSE IF TempMissingOrEmpty(w)
                THEN \E r \in Finally(EmptyOutput(job)) : Set(j, r)
                ELSE Set(j, [job EXCEPT !.pc = "strip"])
    /\ UNCHANGED << tree, codecOf, argv, mainPc, run, exitStatus >>
    /\ UNCHANGED otherVars

\* convert_video lines 214-217, the metadata-strip ffmpeg is started.  It is
\* run without -y and with no terminal, so it refuses an existing target;
\* otherwise it fails before opening its target or creates the target file.
StripStart(j) ==
    /\ jobs[j].pc = "strip"
    /\ \E o \in {"started", "rcfail", "oserror"} :
         LET job == [jobs[j] EXCEPT !.strips = @ + 1, !.rc2 = o]
             target == StripTarget(job.file)
         IN  /\ o = "started" => ~exists(tree, target)
             /\ IF o = "oserror"
                THEN /\ \E r \in Finally(RaiseInTry(job, "strip")) : Set(j, r)
                     /\ UNCHANGED tree
                ELSE IF o = "started"
                THEN /\ Set(j, [job EXCEPT !.pc = "stripping"])
                     /\ tree' = [tree EXCEPT ![target] = "partial"]
                ELSE /\ \E r \in Finally(StageFailed(job, "strip")) : Set(j, r)
                     /\ UNCHANGED tree
    /\ UNCHANGED << codecOf, argv, mainPc, run, exitStatus >>
    /\ UNCHANGED otherVars

\* convert_video lines 214-220, the metadata-strip ffmpeg ends: exit 0 with
\* its target written, or a non-zero exit that leaves what it had written.
StripEnd(j) ==
    /\ jobs[j].pc = "stripping"
    /\ \E o \in {"rc0", "rcfail"} :
         LET job == [jobs[j] EXCEPT !.rc2 = o]
             target == StripTarget(job.file)
         IN  IF run_command(o)
             THEN /\ \E r \in Finally([job EXCEPT !.result = "converted",
                                                  !.log = @ \cup {"success"}]) :
                       Set(j, r)
                  /\ tree' = [tree EXCEPT ![target] = "data"]
             ELSE /\ \E r \in Finally(StageFailed(job, "strip")) : Set(j, r)
                  /\ UNCHANGED tree
    /\ UNCHANGED << codecOf, argv, mainPc, run, exitStatus >>
    /\ UNCHANGED otherVars

(* ---------------------------------------------------------------------- *)
(* Specification                                                           *)
(* ---------------------------------------------------------------------- *)
JobStep(j) ==
    \/ Dispatch(j)
    \/ GetVideoInfo(j)
    \/ ConvertStart(j)
    \/ FirstStage(j)
    \/ StripStart(j)
    \/ StripEnd(j)

Next ==
    \/ MainStart
    \/ Collect
    \/ PoolJoin
    \/ WaitKeyAndExit
    \/ Rerun
    \/ \E j \in JobIds : Dispatch(j)
    \/ \E j \in JobIds : GetVideoInfo(j)
    \/ \E j \in JobIds : ConvertStart(j)
    \/ \E j \in JobIds : FirstStage(j)
    \/ \E j \in JobIds : StripStart(j)
    \/ \E j \in JobIds : StripEnd(j)

Spec == Init /\ [][Next]_vars

\* The operating system runs the main process and the pool's workers, and
\* every external tool returns: as long as a step of main or of a task is
\* possible, one is taken.  (The second run is the user's choice and is not
\* forced.)
Progress ==
    \/ MainStart
    \/ Collect
    \/ PoolJoin
    \/ WaitKeyAndExit
    \/ \E j \in JobIds : JobStep(j)

\* The batches whose termination is checked: the directory as the only
\* root, or the directory and then one of its files again.
InitFair ==
    /\ Init
    /\ argv \in { << DirRoot >>, << DirRoot, MkPath("a", ".avi") >> }

FairSpec == InitFair /\ [][Next]_vars /\ WF_vars(Progress)

\* One candidate, a.avi given as the only root, holding any pair of codecs
\* ("" for a stream the file does not have).
InitClassify ==
    /\ tree \in { t \in InitialTrees :
                    /\ t[MkPath("a", ".avi")] = "data"
                    /\ t[MkPath("a", ".MKV")] = "absent"
                    /\ t[MkPath("b", ".mp4")] = "absent" }
    /\ argv = << MkPath("a", ".avi") >>
    /\ codecOf \in { [p \in Paths |-> << v, a >>] :
                       v \in VideoCodecs \cup {""}, a \in AudioCodecs }
    /\ InitCommon
    /\ ChaptersIdle
    /\ ReconIdle
    /\ ScriptsIdle

SpecClassify == InitClassify /\ [][Next]_vars

(* ---------------------------------------------------------------------- *)
(* Claims about convert2mp4                                                *)
(* ---------------------------------------------------------------------- *)
Done(j) == jobs[j].pc = "done"

OutputOf(j) == get_output_path(jobs[j].file)

NoStageInvoked(j) ==
    /\ jobs[j].encodes = 0
    /\ jobs[j].copies = 0
    /\ jobs[j].strips = 0

\* C1: a convert_video job whose output path exists at its exists-check ends
\* as a skipped success, has invoked neither the encode, the copy nor the
\* metadata-strip tool, and has created no temp file.
C1_SkipExisting ==
    \A j \in JobIds :
        jobs[j].existed = "yes" =>
            /\ Done(j)
            /\ jobs[j].result = "skipped"
            /\ NoStageInvoked(j)
            /\ jobs[j].tmp = "none"
            /\ jobs[j].cleanups = 0

\* C1 witness: a first-run job for a.avi that found a.mp4 in place and was
\* skipped.
C1_Witness ==
    \E j \in JobIds :
        /\ run = 1
        /\ jobs[j].file = MkPath("a", ".avi")
        /\ jobs[j].existed = "yes"
        /\ jobs[j].result = "skipped"

\* C2 as stated: the second run over the same roots, after a first run in
\* which every job succeeded, invokes no external tool at all: no probe, no
\* encode, no copy, no metadata-strip.
C2_SecondRunNoTool ==
    run = 2 => \A j \in JobIds : jobs[j].probes = 0 /\ NoStageInvoked(j)

\* C2 amended: the second run, after a first run in which convert_video
\* returned True for every candidate, invokes no encode, copy or
\* metadata-strip tool and creates no temp file; every task that ends in
\* the second run has been probed and was skipped or had no video codec or
\* a probe that could not be started.
C2_SecondRunNoStage ==
    run = 2 =>
        \A j \in JobIds :
            /\ NoStageInvoked(j)
            /\ jobs[j].tmp = "none"
            /\ Done(j) => /\ jobs[j].probes >= 1
                          /\ jobs[j].result \in {"skipped", "noinfo", "raised"}

\* C2 witness: the second run has ended, and in it a.avi, converted by the
\* first run, was probed twice and skipped.
C2_Witness ==
    /\ run = 2
    /\ mainPc = "exited"
    /\ tree[MkPath("a", ".mp4")] = "data"
    /\ \E j \in JobIds :
        /\ jobs[j].file = MkPath("a", ".avi")
        /\ jobs[j].probes = 2
        /\ jobs[j].result = "skipped"

FirstStageLeftNothing(j) ==
    jobs[j].rc1 = "rc0" /\ jobs[j].out1 \in {"absent", "empty"}

\* C3 as stated: when the first-stage tool exits zero and leaves the temp
\* file missing or empty, the job ends failed with the empty-output reason,
\* the metadata-strip stage is never invoked, and the temp file does not
\* exist when the job has returned.
C3_EmptyOutputTempGone ==
    \A j \in JobIds :
        FirstStageLeftNothing(j) =>
            /\ Done(j)
            /\ jobs[j].result = "failed"
            /\ jobs[j].reason = "empty"
            /\ jobs[j].strips = 0
            /\ ~TempExists(jobs[j].tmp)

\* C3 amended: ... the job ends failed with the empty-output reason logged,
\* the metadata-strip stage is never invoked, and the temp file does not
\* exist when the job has returned unless its removal raised (which is
\* logged).
C3_EmptyOutputFails ==
    \A j \in JobIds :
        FirstStageLeftNothing(j) =>
            /\ Done(j)
            /\ jobs[j].result = "failed"
            /\ jobs[j].reason = "empty"
            /\ "empty_output" \in jobs[j].log
            /\ jobs[j].strips = 0
            /\ jobs[j].rc2 = "none"
            /\ jobs[j].cleanups = 1
            /\ TempExists(jobs[j].tmp) =>
                   jobs[j].unlinkFailed /\ "unlink_error" \in jobs[j].log

\* C3 witness: a job whose first stage exited zero with a zero-byte temp
\* file has failed and its temp file has been removed.
C3_Witness ==
    \E j \in JobIds :
        /\ jobs[j].rc1 = "rc0"
        /\ jobs[j].out1 = "empty"
        /\ jobs[j].result = "failed"
        /\ jobs[j].unlinks = 1
        /\ jobs[j].tmp = "absent"

TempCreated(j) == jobs[j].tmp # "none"

\* C4 as stated: every job that created a temp file and has returned has
\* attempted the removal of the temp file exactly once, and the temp file
\* is gone if that removal succeeded.
C4_RemovalAttemptedOnce ==
    \A j \in JobIds :
        (TempCreated(j) /\ Done(j)) =>
            /\ jobs[j].unlinks = 1
            /\ ~jobs[j].unlinkFailed => ~TempExists(jobs[j].tmp)

\* C4 amended: for every job that created a temp file, whichever way it
\* leaves the try block, the cleanup clause runs exactly once, on the way
\* out; it calls unlink exactly once if the tool left a temp file and not
\* at all if the temp file is missing by then; and unless that unlink
\* raised, the temp file does not exist once the job has returned.
C4_CleanupOnce ==
    \A j \in JobIds :
        TempCreated(j) =>
            /\ ~Done(j) => jobs[j].cleanups = 0 /\ jobs[j].unlinks = 0
            /\ Done(j) =>
                /\ jobs[j].cleanups = 1
                /\ jobs[j].unlinks = (IF TempExists(jobs[j].out1) THEN 1 ELSE 0)
                /\ ~jobs[j].unlinkFailed => jobs[j].tmp = "absent"

\* C4 witness: a job left the try block by an exception raised when the
\* metadata-strip tool was started; the cleanup ran once and removed the
\* temp file.
C4_Witness ==
    \E j \in JobIds :
        /\ Done(j)
        /\ jobs[j].result = "raised"
        /\ jobs[j].failedStage = "strip"
        /\ jobs[j].cleanups = 1
        /\ jobs[j].unlinks = 1
        /\ jobs[j].tmp = "absent"

SameOutputElsewhere(j) ==
    \E k \in JobIds : k # j /\ OutputOf(k) = OutputOf(j)

\* C5: no invocation writes under the final output path, which appears only
\* by promotion of a verified temp file: a job that found no output at its
\* exists-check, is the only job of the batch for that output and ends
\* failed (or by an exception) leaves no file at the final output path.
C5_FailedLeavesNoOutput ==
    \A j \in JobIds :
        ( /\ Done(j)
          /\ jobs[j].existed = "no"
          /\ jobs[j].result \in {"failed", "raised"}
          /\ ~SameOutputElsewhere(j) )
        => tree[OutputOf(j)] = "absent"

StageEndedBadly(j) ==
    \/ jobs[j].rc1 \in {"rcfail", "oserror"}
    \/ jobs[j].rc2 \in {"rcfail", "oserror"}

\* C6 as stated: when a stage's invocation returns non-zero or fails to run,
\* no later stage of the job is invoked, the job returns failure, and the
\* stage's captured stderr is reported with the failure.
C6_StageFailureReturnsFalse ==
    \A j \in JobIds :
        StageEndedBadly(j) =>
            /\ jobs[j].rc1 # "rc0" => jobs[j].strips = 0
            /\ Done(j)
            /\ jobs[j].result = "failed"
            /\ "stderr" \in jobs[j].log

\* C6 amended: when a stage's invocation returns non-zero, no later stage
\* of the job is invoked, convert_video returns False and the stage's
\* captured stderr is logged; when the invocation cannot be started, no
\* later stage is invoked either, but convert_video raises instead of
\* returning, and process_single_file logs the exception's text, there
\* being no stderr.
C6_StageFailureHalts ==
    \A j \in JobIds :
        /\ jobs[j].rc1 \in {"rcfail", "oserror"} =>
               jobs[j].strips = 0 /\ jobs[j].rc2 = "none"
        /\ (jobs[j].rc1 = "rcfail" \/ jobs[j].rc2 = "rcfail") =>
               /\ Done(j)
               /\ jobs[j].result = "failed"
               /\ jobs[j].reason = "tool"
               /\ "stderr" \in jobs[j].log
        /\ (jobs[j].rc1 = "oserror" \/ jobs[j].rc2 = "oserror") =>
               /\ Done(j)
               /\ jobs[j].result = "raised"
               /\ "file_error" \in jobs[j].log
               /\ "stderr" \notin jobs[j].log

\* C6 witness: in one batch a first stage exited non-zero, so that its job
\* failed without a metadata-strip invocation, and a tool could not be
\* started.
C6_Witness ==
    /\ \E j \in JobIds :
        /\ jobs[j].rc1 = "rcfail"
        /\ jobs[j].result = "failed"
        /\ jobs[j].strips = 0
    /\ \E k \in JobIds :
        /\ jobs[k].rc1 = "oserror"
        /\ jobs[k].result = "raised"

TerminalResults == {"converted", "skipped", "noinfo", "failed", "raised"}

AllJobsTerminal ==
    \A j \in JobIds : Done(j) /\ jobs[j].result \in TerminalResults

\* C7: once process_paths has handed its candidates to the pool, every one
\* of them reaches a terminal state and pool.map returns, whatever the
\* other jobs do (fail, raise, succeed).
C7_EveryJobTerminates ==
    (mainPc = "pool") ~> (mainPc = "returned" /\ AllJobsTerminal)

\* C7 witness: the batch is over with one job that raised, one that failed
\* and the other of the two having reached its end all the same.
C7_Witness ==
    /\ mainPc = "returned"
    /\ Len(jobs) >= 2
    /\ AllJobsTerminal
    /\ \E j \in JobIds : jobs[j].result = "raised"
    /\ \E k \in JobIds : jobs[k].result = "converted"

JobFailed(j) == jobs[j].result \in {"failed", "raised"}

\* C8: after all jobs of a batch the process exits with non-zero status if
\* and only if at least one job failed (convert_video returned False or
\* raised).
C8_ExitStatusTellsFailure ==
    (mainPc = "exited" /\ Len(jobs) > 0) =>
        (exitStatus # 0 <=> \E j \in JobIds : JobFailed(j))

PastExistsCheck(j) == jobs[j].pc \in {"stage1", "strip", "stripping"}

\* C9: no two jobs of a batch target the same output path: never have two
\* workers both passed the exists-check for one output path.
C9_OneJobPerOutput ==
    \A j \in JobIds, k \in JobIds :
        (j # k /\ PastExistsCheck(j) /\ PastExistsCheck(k)) =>
            OutputOf(j) # OutputOf(k)

FirstStageInvoked(j) == jobs[j].rc1 # "none"

\* C10: a job that runs its first stage runs exactly one of the two tools:
\* the copy tool exactly when the video codec is one of h264, hevc, av1 and
\* the audio codec one of aac, mp3, and the encode tool otherwise; a job
\* that does not get to its first stage runs neither.
C10_CopyIffBothSupported ==
    \A j \in JobIds :
        /\ jobs[j].encodes + jobs[j].copies = (IF FirstStageInvoked(j) THEN 1 ELSE 0)
        /\ FirstStageInvoked(j) =>
            (jobs[j].copies = 1 <=>
                /\ jobs[j].vcodec \in {"h264", "hevc", "av1"}
                /\ jobs[j].acodec \in {"aac", "mp3"})

\* C10 witness: a job with a supported video codec whose audio probe gave
\* "unknown" ran the encode tool.
C10_Witness ==
    \E j \in JobIds :
        /\ jobs[j].vcodec = "hevc"
        /\ jobs[j].acodec = "unknown"
        /\ jobs[j].encodes = 1
        /\ jobs[j].copies = 0

(* ---------------------------------------------------------------------- *)
(* Claims about probing and enumeration                                    *)
(* ---------------------------------------------------------------------- *)
VideoProbeFailed(j) == jobs[j].vprobe \in {"fail", "empty"}

\* C11: when the video-stream probe exits non-zero or yields empty output,
\* the video codec is "unknown", classification fails and the file is
\* skipped: the probe ran once for the file (no retry, no audio probe), no
\* pipeline stage is invoked and no temp file is created for it.
C11_UnknownVideoSkipped ==
    \A j \in JobIds :
        VideoProbeFailed(j) =>
            /\ jobs[j].vcodec = "unknown"
            /\ Done(j)
            /\ jobs[j].result = "noinfo"
            /\ "no_codec" \in jobs[j].log
            /\ jobs[j].probes = 1
            /\ jobs[j].existed = "unchecked"
            /\ NoStageInvoked(j)
            /\ jobs[j].tmp = "none"
            /\ jobs[j].cleanups = 0

\* C11 witness: the video probe of a.avi exited zero with empty output and
\* the batch is over with the file skipped after that single probe.
C11_Witness ==
    /\ mainPc = "exited"
    /\ \E j \in JobIds :
        /\ jobs[j].file = MkPath("a", ".avi")
        /\ jobs[j].vprobe = "empty"
        /\ jobs[j].result = "noinfo"
        /\ jobs[j].probes = 1

Announced(j) == jobs[j].progress # << >>

\* C12: all candidates of all root arguments are enumerated before any job
\* is dispatched: when the pool is handed its tasks none has started and
\* there is one task per candidate of every root; the total is that number
\* for every task, and every progress message of the batch carries that
\* same total with the task's own 1-based position.
C12_TotalFixedBeforeDispatch ==
    /\ mainPc \in {"main", "collect"} => Len(jobs) = 0
    /\ (mainPc = "pool" /\ \A j \in JobIds : jobs[j].pc = "queued") =>
           Len(jobs) = Len(CollectVideoFiles(tree, argv, Len(argv)))
    /\ \A j \in JobIds :
           /\ jobs[j].total = Len(jobs)
           /\ jobs[j].pc = "queued" <=> ~Announced(j)
           /\ Announced(j) => jobs[j].progress = << j, Len(jobs) >>

\* C12 witness: two roots, the directory and a file of it, gave two tasks,
\* and both have logged their progress line, "1/2" and "2/2".
C12_Witness ==
    /\ Len(argv) = 2
    /\ argv[1] # argv[2]
    /\ Len(jobs) = 2
    /\ jobs[1].progress = << 1, 2 >>
    /\ jobs[2].progress = << 2, 2 >>

(* ====================================================================== *)
(* Part 2: chapter texts                                                   *)
(* ====================================================================== *)
(* ---------------------------------------------------------------------- *)
(* Bounds                                                                  *)
(* ---------------------------------------------------------------------- *)
MaxLines == 2          \* at most this many lines in a small bookmark file
MaxOffsetSteps == 1100 \* millisecond offsets tried above each base time
MaxChapters == 100     \* at most this many bookmarks in a long bookmark file

(* ---------------------------------------------------------------------- *)
(* Texts: sequences of characters                                          *)
(* ---------------------------------------------------------------------- *)
\* A character is a one-letter string; each katakana letter of the
\* bookmark label is written by its reading ("BU", "TSU", ...).
DigitChars == << "0", "1", "2", "3", "4", "5", "6", "7", "8", "9" >>

IsDigit(c) == \E d \in 1..10 : DigitChars[d] = c

DigitValue(c) == (CHOOSE d \in 1..10 : DigitChars[d] = c) - 1

\* str(n) for n >= 0
RECURSIVE Str(_)
Str(n) ==
    IF n < 10 THEN << DigitChars[n + 1] >>
    ELSE Append(Str(n \div 10), DigitChars[(n % 10) + 1])

RECURSIVE ZeroPad(_, _)
ZeroPad(text, width) ==
    IF Len(text) >= width THEN text ELSE ZeroPad(<< "0" >> \o text, width)

\* Mutant: no zero padding, f"{n}".
FormatUnpadded(n, width) == Str(n)

\* f"{n:02}", f"{n:03}": at least width digits, zero-padded on the left.
Format(n, width) == ZeroPad(Str(n), width)

IsInt(text) == Len(text) > 0 /\ \A i \in DOMAIN text : IsDigit(text[i])

\* int(text) for a text of digits
RECURSIVE IntOf(_)
IntOf(text) ==
    IF Len(text) = 0 THEN 0
    ELSE 10 * IntOf(SubSeq(text, 1, Len(text) - 1)) + DigitValue(text[Len(text)])

StartsWith(text, prefix) ==
    Len(text) >= Len(prefix) /\ SubSeq(text, 1, Len(prefix)) = prefix

\* pattern in text
Contains(text, pattern) ==
    \E i \in 1..(Len(text) - Len(pattern) + 1) :
        SubSeq(text, i, i + Len(pattern) - 1) = pattern

\* text[a:b], Python's slice: clipped to the text
Slice(text, a, b) ==
    SubSeq(text, a + 1, IF b < Len(text) THEN b ELSE Len(text))

\* Where the first c of text stands, 0 if there is none.
IndexOf(text, c) ==
    IF \E i \in DOMAIN text : text[i] = c
    THEN CHOOSE i \in DOMAIN text :
            text[i] = c /\ \A k \in 1..(i - 1) : text[k] # c
    ELSE 0

\* text.split(c, 1)
SplitOnce(text, c) ==
    IF IndexOf(text, c) = 0 THEN << text >>
    ELSE << SubSeq(text, 1, IndexOf(text, c) - 1),
            SubSeq(text, IndexOf(text, c) + 1, Len(text)) >>

\* text.split(c)
RECURSIVE Split(_, _)
Split(text, c) ==
    IF IndexOf(text, c) = 0 THEN << text >>
    ELSE << SubSeq(text, 1, IndexOf(text, c) - 1) >>
         \o Split(SubSeq(text, IndexOf(text, c) + 1, Len(text)), c)

Max(a, b) == IF a >= b THEN a ELSE b

RECURSIVE Pow10(_)
Pow10(k) == IF k = 0 THEN 1 ELSE 10 * Pow10(k - 1)

(* ---------------------------------------------------------------------- *)
(* embedded_mkv_chapters.convert_pbf_to_chapters                           *)
(* ---------------------------------------------------------------------- *)
TIMESTAMP_OFFSET_MS == -500

\* "Chapter" and the bookmark tool's label, the two prefixes of a default
\* title.
ChapterWord == << "C", "h", "a", "p", "t", "e", "r" >>
BookmarkWord == << "BU", "TSU", "KU", "MA", "-", "KU" >>

\* The title of the entry line 99 inserts.
FirstBookmarkName == BookmarkWord \o << " ", "1" >>

\* A line of the bookmark file: one that carries "=" and "*" and an integer
\* before the first "*" (its millisecond offset and its stripped label), one
\* whose offset is no integer (int() raises ValueError), or any other line.
Bookmark(ms, name) == [kind |-> "bookmark", ms |-> ms, name |-> name]
NoIntegerLine == [kind |-> "noint", ms |-> 0, name |-> << >>]
OtherLine == [kind |-> "other", ms |-> 0, name |-> << >>]

\* Mutant: the magnitude is taken where the clamp should be.
adjusted_ms_abs(milliseconds) ==
    Max(milliseconds + TIMESTAMP_OFFSET_MS,
        0 - (milliseconds + TIMESTAMP_OFFSET_MS))

\* line 84
adjusted_ms(milliseconds) == Max(0, milliseconds + TIMESTAMP_OFFSET_MS)

IsBookmarkLine(line) == line.kind = "bookmark"

\* lines 76-89: the bookmarks of the lines, in order, as (td, name) with td
\* the timedelta in milliseconds; the other lines are passed over.
DecodeBookmarks(lines) ==
    LET kept == SelectSeq(lines, IsBookmarkLine)
    IN  [i \in 1..Len(kept) |->
            [td |-> adjusted_ms(kept[i].ms), name |-> kept[i].name]]

\* Mutant: the first chapter is never added.
InsertFirstNever(decodedList) == decodedList

\* Mutant: the first chapter is added whatever the first bookmark's time.
InsertFirstAlways(decodedList) ==
    << [td |-> 0, name |-> FirstBookmarkName] >> \o decodedList

\* Mutant: the first chapter is added behind the decoded bookmarks.
InsertFirstAtEnd(decodedList) ==
    IF decodedList[1].td > 0
    THEN decodedList \o << [td |-> 0, name |-> FirstBookmarkName] >>
    ELSE decodedList

\* lines 97-99: only the first bookmark's time is looked at.
InsertFirst(decodedList) ==
    IF decodedList[1].td > 0
    THEN << [td |-> 0, name |-> FirstBookmarkName] >> \o decodedList
    ELSE decodedList

\* lines 104-110: HH:MM:SS.mmm of a timedelta of td milliseconds
ClockText(td) ==
    LET total_seconds == td \div 1000
        hours == total_seconds \div 3600
        remainder == total_seconds % 3600
        minutes == remainder \div 60
        secs == remainder % 60
        millis == td % 1000
    IN  Format(hours, 2) \o << ":" >> \o Format(minutes, 2) \o << ":" >>
        \o Format(secs, 2) \o << "." >> \o Format(millis, 3)

CHAPTER == << "C", "H", "A", "P", "T", "E", "R" >>
NAME == << "N", "A", "M", "E" >>

\* line 111
TimeLine(i, td) == CHAPTER \o Format(i, 2) \o << "=" >> \o ClockText(td)

\* line 112
NameLine(i, name) == CHAPTER \o Format(i, 2) \o NAME \o << "=" >> \o name

\* lines 102-112: for i, (td, name) in enumerate(bookmarks, 1), the time
\* line and then the name line of entry i.
WriteChapters(list) ==
    [k \in 1..(2 * Len(list)) |->
        LET i == (k + 1) \div 2
        IN  IF k % 2 = 1 THEN TimeLine(i, list[i].td)
            ELSE NameLine(i, list[i].name)]

(* ---------------------------------------------------------------------- *)
(* extract_video.parse_chapter_file                                        *)
(* ---------------------------------------------------------------------- *)
\* Mutant: only "Chapter" and a number make a default title.
is_default_chapter_name_chapter_only(name) ==
    /\ StartsWith(name, ChapterWord)
    /\ Len(name) >= Len(ChapterWord) + 2
    /\ name[Len(ChapterWord) + 1] = " "
    /\ \A i \in (Len(ChapterWord) + 2)..Len(name) : IsDigit(name[i])

\* re.match(r"^(Chapter|<bookmark label>) \d+$", name)
is_default_chapter_name(name) ==
    \E word \in {ChapterWord, BookmarkWord} :
        /\ StartsWith(name, word)
        /\ Len(name) >= Len(word) + 2
        /\ name[Len(word) + 1] = " "
        /\ \A i \in (Len(word) + 2)..Len(name) : IsDigit(name[i])

\* Mutant: default titles are kept.
KeepsTitleAlways(name) == TRUE

\* line 56
KeepsTitle(name) == ~is_default_chapter_name(name)

\* Mutant: the ordinal is read to the "=" sign.
OrdinalTextToEquals(line) == Slice(line, 7, IndexOf(line, "=") - 1)

\* line 52: line[7:9]
OrdinalText(line) == Slice(line, 7, 9)

\* line 50 and line 53
IsTimeLine(line) == StartsWith(line, CHAPTER) /\ ~Contains(line, NAME)
IsNameLine(line) == StartsWith(line, CHAPTER) /\ Contains(line, NAME)

\* line 55
ChapterName(line) == SplitOnce(line, "=")[2]

\* current_number when line k is read: what line 52 made of the last time
\* line before it, -1 (None) if there is none.
CurrentNumber(lines, k) ==
    IF \E i \in 1..(k - 1) : IsTimeLine(lines[i])
    THEN LET last == CHOOSE i \in 1..(k - 1) :
                        /\ IsTimeLine(lines[i])
                        /\ \A m \in (i + 1)..(k - 1) : ~IsTimeLine(lines[m])
         IN  IntOf(OrdinalText(lines[last]))
    ELSE -1

\* lines 43-59: one (current_number, chapter_name) per name line whose title
\* is kept, in the order of the lines; int() raises ValueError on a time
\* line whose line[7:9] is no number.
parse_chapter_file(lines) ==
    LET raised == \E i \in DOMAIN lines :
                      IsTimeLine(lines[i]) /\ ~IsInt(OrdinalText(lines[i]))
        IsKept(k) == IsNameLine(lines[k]) /\ KeepsTitle(ChapterName(lines[k]))
        kept == SelectSeq([k \in DOMAIN lines |-> k], IsKept)
    IN  [raised |-> raised,
         list |-> IF raised THEN << >>
                  ELSE [j \in 1..Len(kept) |->
                          [number |-> CurrentNumber(lines, kept[j]),
                           name |-> ChapterName(lines[kept[j]])]]]

(* ---------------------------------------------------------------------- *)
(* write_chapters_for_oldcsv.timestamp_to_seconds                          *)
(* ---------------------------------------------------------------------- *)
\* The digits before and after the decimal point of a number text.
WholeDigits(text) == SplitOnce(text, ".")[1]

FractionDigits(text) ==
    IF Len(SplitOnce(text, ".")) = 2 THEN SplitOnce(text, ".")[2] ELSE << >>

\* float(text) accepts the text: digits, with or without a decimal point.
IsFloat(text) ==
    /\ Len(WholeDigits(text)) + Len(FractionDigits(text)) > 0
    /\ \A i \in DOMAIN WholeDigits(text) : IsDigit(WholeDigits(text)[i])
    /\ \A i \in DOMAIN FractionDigits(text) : IsDigit(FractionDigits(text)[i])

\* The fraction digits (at most 9 are looked at) as a number of
\* microseconds, rounded to the nearest, a tie to the even one; 1000000
\* when the rounding carries into the seconds.
RoundedMicros(fraction) ==
    LET digits == Slice(fraction, 0, 9)
        k == Len(digits)
        v == IntOf(digits)
    IN  IF k <= 6 THEN v * Pow10(6 - k)
        ELSE LET d == Pow10(k - 6)
                 q == v \div d
                 r == v % d
             IN  IF 2 * r > d \/ (2 * r = d /\ q % 2 = 1) THEN q + 1 ELSE q

\* lines 11-14: round(float(h) * 3600 + float(m) * 60 + float(s), 6) as
\* whole seconds and microseconds, or ValueError.  (The hour and minute
\* parts of the texts read here are whole numbers.)
timestamp_to_seconds(timestamp) ==
    LET parts == Split(timestamp, ":")
    IN  IF Len(parts) # 3 \/ \E i \in 1..Len(parts) : ~IsFloat(parts[i])
        THEN [raised |-> TRUE, whole |-> 0, micro |-> 0]
        ELSE LET micros == RoundedMicros(FractionDigits(parts[3]))
                 whole == IntOf(WholeDigits(parts[1])) * 3600
                          + IntOf(WholeDigits(parts[2])) * 60
                          + IntOf(WholeDigits(parts[3]))
             IN  [raised |-> FALSE,
                  whole |-> whole + (micros \div 1000000),
                  micro |-> micros % 1000000]

\* The clock texts of a chapter file, in order.
ClockTexts(lines) ==
    LET timeLines == SelectSeq(lines, IsTimeLine)
    IN  [i \in 1..Len(timeLines) |-> SplitOnce(timeLines[i], "=")[2]]

(* ---------------------------------------------------------------------- *)
(* The chapter scripts' steps                                               *)
(* ---------------------------------------------------------------------- *)
\* convert_pbf_to_chapters: read the bookmark file (read_pbf_file may fail
\* for every encoding), decode, add the first chapter, write the chapter
\* file.
ConvertPbfToChapters ==
    /\ chPc = "start"
    /\ \E readable \in BOOLEAN :
         LET list == DecodeBookmarks(pbf)
         IN  IF ~readable
             THEN /\ chPc' = "unreadable"
                  /\ UNCHANGED << decoded, bookmarks, chapterFile >>
             ELSE IF Len(list) = 0
             THEN /\ chPc' = "nobookmarks"
                  /\ UNCHANGED << decoded, bookmarks, chapterFile >>
             ELSE /\ chPc' = "written"
                  /\ decoded' = list
                  /\ bookmarks' = InsertFirst(list)
                  /\ chapterFile' = WriteChapters(InsertFirst(list))
    /\ UNCHANGED << pbf, chapters, seconds >>
    /\ UNCHANGED outsideChapters

\* extract_video.parse_chapter_file on the text of the chapter file.
ParseChapterFile ==
    /\ chPc = "written"
    /\ chPc' = "parsed"
    /\ chapters' = parse_chapter_file(chapterFile)
    /\ UNCHANGED << pbf, decoded, bookmarks, chapterFile, seconds >>
    /\ UNCHANGED outsideChapters

\* write_chapters_for_oldcsv.timestamp_to_seconds on each clock text of the
\* chapter file.
TimestampToSeconds ==
    /\ chPc = "parsed"
    /\ chPc' = "done"
    /\ seconds' =
         LET texts == ClockTexts(chapterFile)
         IN  [i \in 1..Len(texts) |-> timestamp_to_seconds(texts[i])]
    /\ UNCHANGED << pbf, decoded, bookmarks, chapterFile, chapters >>
    /\ UNCHANGED outsideChapters

NextChapters ==
    \/ ConvertPbfToChapters
    \/ ParseChapterFile
    \/ TimestampToSeconds

(* ---------------------------------------------------------------------- *)
(* Bookmark files                                                          *)
(* ---------------------------------------------------------------------- *)
Intro == << "I", "n", "t", "r", "o" >>

\* Titles: a plain one, the two kinds of default title, "Chapter" with no
\* number, "Chapter 1a", and the empty title.
TitleChoices ==
    { Intro,
      ChapterWord \o << " ", "0", "1" >>,
      BookmarkWord \o << " ", "2" >>,
      ChapterWord,
      ChapterWord \o << " ", "1", "a" >>,
      << >> }

\* Millisecond offsets: two that the offset takes to 0, and two later ones.
OffsetChoices == {300, 500, 1000, 5000}

LineChoices ==
    { Bookmark(ms, name) : ms \in OffsetChoices, name \in TitleChoices }
    \cup {NoIntegerLine, OtherLine}

InitChapterScripts ==
    /\ chPc = "start"
    /\ decoded = << >>
    /\ bookmarks = << >>
    /\ chapterFile = << >>
    /\ chapters = [raised |-> FALSE, list |-> << >>]
    /\ seconds = << >>
    /\ ConvertIdle
    /\ ReconIdle
    /\ ScriptsIdle

\* Small bookmark files: every file of at most MaxLines lines.
InitChapters ==
    /\ pbf \in UNION { [1..n -> LineChoices] : n \in 0..MaxLines }
    /\ InitChapterScripts

SpecChapters == InitChapters /\ [][NextChapters]_vars

\* Base offsets: below zero, and just before the minute, the hour, the day
\* and the hundredth hour are reached.
ClockBases == {-600, 59500, 3599500, 86399500, 359999500}

\* One bookmark, at each offset from a base up to MaxOffsetSteps later.
InitClock ==
    /\ pbf \in { << Bookmark(b + k, Intro) >> :
                   b \in ClockBases, k \in 0..MaxOffsetSteps }
    /\ InitChapterScripts

SpecClock == InitClock /\ [][NextChapters]_vars

\* Long bookmark files: n bookmarks a second apart, the first at 0.5 s or
\* at 1.5 s, for every n up to MaxChapters.
InitManyChapters ==
    /\ pbf \in { [i \in 1..n |-> Bookmark(first + 1000 * (i - 1), Intro)] :
                   n \in 1..MaxChapters, first \in {500, 1500} }
    /\ InitChapterScripts

SpecManyChapters == InitManyChapters /\ [][NextChapters]_vars

(* ---------------------------------------------------------------------- *)
(* Claims about the chapter texts                                          *)
(* ---------------------------------------------------------------------- *)
ChapterFileWritten == chPc \in {"written", "parsed", "done"}

ChapterFileParsed == chPc \in {"parsed", "done"}

SyntheticEntry == [td |-> 0, name |-> FirstBookmarkName]

\* C13: if the first decoded bookmark's offset-adjusted timestamp is greater
\* than zero, exactly one entry with timestamp 0 and the default
\* first-chapter label is inserted at position 0 and all decoded entries
\* follow unchanged; the first entry of every emitted chapter list has
\* timestamp 0 (the file's first line is CHAPTER01=00:00:00.000).
C13_FirstChapterAtZero ==
    ChapterFileWritten =>
        /\ decoded[1].td > 0 => bookmarks = << SyntheticEntry >> \o decoded
        /\ bookmarks[1].td = 0
        /\ chapterFile[1] =
             CHAPTER \o << "0", "1", "=", "0", "0", ":", "0", "0", ":",
                           "0", "0", ".", "0", "0", "0" >>

\* C13 witness: bookmarks at 1000 ms and 5000 ms are decoded to 500 ms and
\* 4500 ms, and three entries are written, the first the inserted one.
C13_Witness ==
    /\ ChapterFileWritten
    /\ pbf = << Bookmark(1000, Intro), Bookmark(5000, Intro) >>
    /\ decoded = << [td |-> 500, name |-> Intro], [td |-> 4500, name |-> Intro] >>
    /\ Len(bookmarks) = 3
    /\ bookmarks[1] = SyntheticEntry
    /\ Len(chapterFile) = 6

HasZeroEntry(list) == \E i \in DOMAIN list : list[i].td = 0

NonDecreasing(list) ==
    \A i \in DOMAIN list, k \in DOMAIN list : i < k => list[i].td <= list[k].td

\* C14 as stated: for every bookmark input that has at least one entry
\* whose offset-adjusted timestamp is 0, no entry is added: the emitted
\* list has exactly as many entries as bookmarks were decoded.
C14_NoAddWhenAnyZero ==
    (ChapterFileWritten /\ HasZeroEntry(decoded)) =>
        Len(bookmarks) = Len(decoded)

\* C14 amended: for every bookmark input whose first decoded entry has the
\* offset-adjusted timestamp 0 (so for every input in non-decreasing time
\* order that has an entry at 0), no entry is added and the emitted list is
\* the decoded list; an entry at 0 that is not the first does not prevent
\* the insertion.
C14_NoAddWhenFirstZero ==
    ChapterFileWritten =>
        /\ decoded[1].td = 0 => bookmarks = decoded
        /\ (NonDecreasing(decoded) /\ HasZeroEntry(decoded)) =>
               Len(bookmarks) = Len(decoded)
        /\ decoded[1].td > 0 => Len(bookmarks) = Len(decoded) + 1

\* C14 witness: the first of two bookmarks is decoded to 0 ms, the second to
\* a later time, and exactly these two entries are written.
C14_Witness ==
    /\ ChapterFileWritten
    /\ Len(decoded) = 2
    /\ decoded[1].td = 0
    /\ decoded[2].td > 0
    /\ bookmarks = decoded
    /\ Len(chapterFile) = 4

\* C15: every timestamp decoded from a bookmark line with millisecond offset
\* ms equals max(0, ms + TIMESTAMP_OFFSET_MS) with TIMESTAMP_OFFSET_MS =
\* -500, and no emitted chapter timestamp is negative, for offsets below
\* 500 and below zero too.
C15_ClampedOffset ==
    /\ TIMESTAMP_OFFSET_MS = -500
    /\ ChapterFileWritten =>
        /\ Len(decoded) = 1
        /\ decoded[1].td = (IF pbf[1].ms - 500 > 0 THEN pbf[1].ms - 500 ELSE 0)
        /\ \A i \in DOMAIN bookmarks : bookmarks[i].td >= 0

\* C15 witness: a bookmark at -1 ms was decoded to 0 ms and written.
C15_Witness ==
    /\ ChapterFileWritten
    /\ pbf[1].ms = -1
    /\ decoded[1].td = 0
    /\ Len(bookmarks) = 1

\* C16: for every millisecond value m >= 0, the HH:MM:SS.mmm text the OGM
\* encoder writes for m, read back by timestamp_to_seconds (rounding to 6
\* decimal digits of a second), is exactly m milliseconds.
C16_ClockTextRoundTrip ==
    chPc = "done" =>
        /\ Len(seconds) = Len(bookmarks)
        /\ \A i \in DOMAIN seconds :
            /\ ~seconds[i].raised
            /\ seconds[i].micro % 1000 = 0
            /\ seconds[i].whole * 1000 + seconds[i].micro \div 1000
                 = bookmarks[i].td

\* C16 witness: 100:00:00.007 was written and read back as 360000 s and
\* 7000 microseconds.
C16_Witness ==
    /\ chPc = "done"
    /\ Len(bookmarks) = 2
    /\ bookmarks[2].td = 360000007
    /\ seconds[2] = [raised |-> FALSE, whole |-> 360000, micro |-> 7000]

\* The entries of the written list that parse_chapter_file is to keep: the
\* positions whose title is no default title.
IsKeptPosition(i) == ~is_default_chapter_name(bookmarks[i].name)

KeptPositions == SelectSeq([i \in 1..Len(bookmarks) |-> i], IsKeptPosition)

C18_OrdinalsRoundTrip ==
    /\ ChapterFileWritten =>
        /\ Len(chapterFile) = 2 * Len(bookmarks)
        /\ \A i \in DOMAIN bookmarks :
            /\ IsTimeLine(chapterFile[2 * i - 1])
            /\ IsNameLine(chapterFile[2 * i])
            /\ \E d1 \in 1..10, d2 \in 1..10 :
                /\ 10 * (d1 - 1) + (d2 - 1) = i
                /\ \A k \in {2 * i - 1, 2 * i} :
                    /\ SubSeq(chapterFile[k], 8, 9)
                         = << DigitChars[d1], DigitChars[d2] >>
                    /\ chapterFile[k][10] \in {"=", "N"}
    /\ ChapterFileParsed =>
        /\ ~chapters.raised
        /\ Len(chapters.list) = Len(KeptPositions)
        /\ \A j \in DOMAIN chapters.list :
             chapters.list[j].number = KeptPositions[j]

(* ====================================================================== *)
(* Part 3: reconciliation of chapter titles                                *)
(* ====================================================================== *)
MaxRecords == 2      \* at most this many records in the CSV
MaxAtoms == 2        \* at most this many ChapterAtom nodes in the XML

\* float(text) of a decimal text, exactly: whole seconds and nanoseconds
\* (texts with at most 9 fraction digits).
FloatOf(text) ==
    [whole |-> IntOf(WholeDigits(text)),
     nano |-> IntOf(FractionDigits(text)) * Pow10(9 - Len(FractionDigits(text)))]

\* write_chapters_for_oldcsv line 44: the atom's key, the rounded seconds of
\* its ChapterTimeStart text, as whole seconds and nanoseconds.
AtomSeconds(time) ==
    [whole |-> timestamp_to_seconds(time).whole,
     nano |-> timestamp_to_seconds(time).micro * 1000]

\* The last index of list whose key is wanted, 0 if there is none: a dict
\* built from the list keeps the last value given for a key.
LastIndex(keys, wanted) ==
    IF \E i \in DOMAIN keys : keys[i] = wanted
    THEN CHOOSE i \in DOMAIN keys :
            keys[i] = wanted /\ \A k \in (i + 1)..Len(keys) : keys[k] # wanted
    ELSE 0

\* write_chapters_for_oldcsv lines 23 and 38: the keys of chapter_map, the
\* records' starts as float() read them.
OldCsvKeys(recs) == [i \in DOMAIN recs |-> FloatOf(recs[i].start)]

\* write_chapters line 16: the keys of chapters, the TimeStart texts.
NewCsvKeys(recs) == [i \in DOMAIN recs |-> recs[i].start]

\* write_chapters_for_oldcsv line 53: if matching_title
TitleIsWritten(matching_title) == matching_title # ""

\* write_chapters_for_oldcsv.update_xml_chapters, lines 41-54, for one atom
OldCsvUpdateAtom(recs, atom) ==
    LET found == LastIndex(OldCsvKeys(recs), AtomSeconds(atom.time))
    IN  IF found # 0 /\ TitleIsWritten(recs[found].title)
        THEN [atom EXCEPT !.title = recs[found].title]
        ELSE atom

\* write_chapters.update_chapter_xml, lines 23-31, for one atom
NewCsvUpdateAtom(recs, atom) ==
    LET found == LastIndex(NewCsvKeys(recs), atom.time)
    IN  IF found # 0 THEN [atom EXCEPT !.title = recs[found].title]
        ELSE atom

\* write_chapters_for_oldcsv.update_xml_chapters
UpdateXmlChapters ==
    /\ rcPc = "oldcsv"
    /\ rcPc' = "oldcsvUpdated"
    /\ updatedAtoms' = [i \in DOMAIN atoms |-> OldCsvUpdateAtom(records, atoms[i])]
    /\ matched' = [i \in DOMAIN atoms |->
                     LastIndex(OldCsvKeys(records), AtomSeconds(atoms[i].time)) # 0]
    /\ UNCHANGED << records, atoms >>
    /\ UNCHANGED outsideRecon

\* write_chapters.update_chapter_xml
UpdateChapterXml ==
    /\ rcPc = "newcsv"
    /\ rcPc' = "newcsvUpdated"
    /\ updatedAtoms' = [i \in DOMAIN atoms |-> NewCsvUpdateAtom(records, atoms[i])]
    /\ matched' = [i \in DOMAIN atoms |->
                     LastIndex(NewCsvKeys(records), atoms[i].time) # 0]
    /\ UNCHANGED << records, atoms >>
    /\ UNCHANGED outsideRecon

NextRecon ==
    \/ UpdateXmlChapters
    \/ UpdateChapterXml

\* A ChapterTimeStart text as mkvextract writes it, 00:00:SS.nnnnnnnnn
AtomTime(secs, nanos) ==
    << "0", "0", ":", "0", "0", ":" >> \o Format(secs, 2) \o << "." >>
    \o Format(nanos, 9)

\* The times of the atoms: 0 s, 1.5 s, and 1 s with 400 ns more.
AtomTimeChoices == { AtomTime(0, 0), AtomTime(1, 500000000), AtomTime(1, 400) }

AtomChoices == { [time |-> t, title |-> "Old"] : t \in AtomTimeChoices }

\* The starts of the old CSV, seconds: "0", "1.5", "1.500000", "1.0" and
\* "1.0000004".
OldCsvStartChoices ==
    { << "0" >>, << "1", ".", "5" >>,
      << "1", ".", "5", "0", "0", "0", "0", "0" >>,
      << "1", ".", "0" >>,
      << "1", ".", "0", "0", "0", "0", "0", "0", "4" >> }

\* The TimeStart texts of the new CSV: the atoms' own texts, and 1.5 s
\* written with three fraction digits.
NewCsvStartChoices ==
    AtomTimeChoices
    \cup { << "0", "0", ":", "0", "0", ":", "0", "1", ".", "5", "0", "0" >> }

TitleTexts == {"New", ""}

RecordSets(starts) ==
    UNION { [1..n -> { [start |-> st, title |-> ti] :
                         st \in starts, ti \in TitleTexts }] :
            n \in 0..MaxRecords }

InitRecon ==
    /\ \/ rcPc = "oldcsv" /\ records \in RecordSets(OldCsvStartChoices)
       \/ rcPc = "newcsv" /\ records \in RecordSets(NewCsvStartChoices)
    /\ atoms \in UNION { [1..n -> AtomChoices] : n \in 0..MaxAtoms }
    /\ updatedAtoms = << >>
    /\ matched = << >>
    /\ ConvertIdle
    /\ ChaptersIdle
    /\ ScriptsIdle

SpecRecon == InitRecon /\ [][NextRecon]_vars

(* ---------------------------------------------------------------------- *)
(* Claims about the reconciliation                                         *)
(* ---------------------------------------------------------------------- *)
\* The record whose title chapter_map holds for the atom's rounded start
\* time, 0 if that time is no key of chapter_map.
OldCsvRecordFor(atom) ==
    LastIndex(OldCsvKeys(records), AtomSeconds(atom.time))

\* C19: after update_xml_chapters, every chapter atom's title equals the
\* record set's title for its rounded start time if that rounded start
\* time is a key of the reconciliation map, and is unchanged otherwise;
\* no atom's start time, and neither the number nor the order of the
\* atoms, is changed.
C19_TitlesFollowMap ==
    rcPc = "oldcsvUpdated" =>
        /\ Len(updatedAtoms) = Len(atoms)
        /\ \A i \in DOMAIN atoms :
            /\ updatedAtoms[i].time = atoms[i].time
            /\ updatedAtoms[i].title =
                 (IF OldCsvRecordFor(atoms[i]) # 0
                  THEN records[OldCsvRecordFor(atoms[i])].title
                  ELSE atoms[i].title)

\* A start time rounded to 6 decimal digits of a second, whole seconds and
\* microseconds, whether it is written as a clock text or as seconds.
RoundedStart(text) ==
    IF Contains(text, << ":" >>)
    THEN [whole |-> timestamp_to_seconds(text).whole,
          micro |-> timestamp_to_seconds(text).micro]
    ELSE [whole |-> IntOf(WholeDigits(text))
                    + (RoundedMicros(FractionDigits(text)) \div 1000000),
          micro |-> RoundedMicros(FractionDigits(text)) % 1000000]

\* C20: in both reconciliation variants a record and a chapter atom match
\* whenever their start times are equal after rounding to 6 decimal digits
\* of a second, however each start time is written.
C20_MatchOnRoundedTimes ==
    rcPc \in {"oldcsvUpdated", "newcsvUpdated"} =>
        \A i \in DOMAIN atoms :
            (\E r \in DOMAIN records :
                RoundedStart(records[r].start) = RoundedStart(atoms[i].time))
            => matched[i]

(* ---------------------------------------------------------------------- *)
(* Claims about the order of the chapter timestamps                        *)
(* ---------------------------------------------------------------------- *)
\* The millisecond offsets of the bookmark lines of the file, in file order.
SourceOffsets ==
    LET kept == SelectSeq(pbf, IsBookmarkLine)
    IN  [i \in 1..Len(kept) |-> [td |-> kept[i].ms]]

\* The clock texts of the time lines of the chapter file are those of this
\* list of entries, in this order.
TimeLinesFollow(list) ==
    /\ Len(chapterFile) = 2 * Len(list)
    /\ \A i \in 1..Len(list) : chapterFile[2 * i - 1] = TimeLine(i, list[i].td)

\* C27: if the bookmark offsets of the source file are in non-decreasing
\* order, the chapter timestamps emitted by convert_pbf_to_chapters are in
\* non-decreasing order too, in the list and in the written file: the
\* -500 ms offset with its clamp at 0 and the inserted first entry keep the
\* order, and the decoded entries stay in file order (nothing is sorted).
C27_TimestampsStayOrdered ==
    ChapterFileWritten =>
        /\ NonDecreasing(SourceOffsets) =>
               /\ NonDecreasing(decoded)
               /\ NonDecreasing(bookmarks)
        /\ decoded = [i \in 1..Len(SourceOffsets) |->
                        [td |-> Max(0, SourceOffsets[i].td + TIMESTAMP_OFFSET_MS),
                         name |-> SelectSeq(pbf, IsBookmarkLine)[i].name]]
        /\ bookmarks \in {decoded, << SyntheticEntry >> \o decoded}
        /\ TimeLinesFollow(bookmarks)

\* C27 witness: two bookmarks in increasing order, the first later than
\* 500 ms, are written behind the inserted first entry, in their order.
C27_Witness ==
    /\ ChapterFileWritten
    /\ NonDecreasing(SourceOffsets)
    /\ Len(SourceOffsets) = 2
    /\ SourceOffsets[1].td < SourceOffsets[2].td
    /\ Len(bookmarks) = 3
    /\ bookmarks[1] = SyntheticEntry
    /\ 0 < bookmarks[2].td
    /\ bookmarks[2].td < bookmarks[3].td
    /\ Len(chapterFile) = 6

(* ====================================================================== *)
(* Part 4: write_chapters_for_oldcsv.py, one directory                     *)
(* ====================================================================== *)
MaxMkv == 2     \* at most this many .mkv files under the directory

\* What stands beside a .mkv file as <stem>_chapters.csv: nothing, a file
\* that cannot be read (open, the decoding, row["start"] or float() raise),
\* a file without data rows, a file with data rows.
CsvKinds == {"none", "unreadable", "empty", "rows"}

\* tempfile.NamedTemporaryFile and os.remove: done, or an OSError.
FileOutcomes == {"ok", "oserror"}

OldcsvSteps == {"extract", "read", "update", "write"}

\* Mutant: the exit status of mkvpropedit is not looked at.
write_chapters_raises_oserror_only(outcome) == outcome = "oserror"

\* write_chapters, lines 78-80: subprocess.run raises when mkvpropedit
\* cannot be started, and a non-zero exit status raises Exception.
write_chapters_raises(outcome) == outcome # "rc0"

\* extract_chapters, lines 62-69: the same for mkvextract.
extract_chapters_raises(outcome) == outcome # "rc0"

\* process_mkv_file returns: process_directory counts it (lines 137-138) and
\* goes on with the walk.
OldcsvReturn(job, result) ==
    /\ ocReturned' = Append(ocReturned, [job EXCEPT !.result = result])
    /\ success_count' =
         IF result = "True" THEN success_count + 1 ELSE success_count
    /\ ocJob' = NoOldcsvJob
    /\ ocPc' = "walk"

\* An exception raised inside the try block of process_mkv_file.
OldcsvRaise(job, step) ==
    /\ ocJob' = [job EXCEPT !.raisedIn = step]
    /\ ocPc' = "except"
    /\ UNCHANGED << ocReturned, success_count >>

\* process_directory, lines 132-137: the next .mkv file of the walk is
\* counted and handed to process_mkv_file.
OldcsvWalk ==
    /\ ocPc = "walk"
    /\ ocWalk > 0
    /\ ocWalk' = ocWalk - 1
    /\ total_count' = total_count + 1
    /\ \E csv \in CsvKinds : ocJob' = [NoOldcsvJob EXCEPT !.csv = csv]
    /\ ocPc' = "find"
    /\ UNCHANGED << ocReturned, success_count >>
    /\ UNCHANGED outsideOldcsv

\* process_mkv_file, lines 92-95: without a CSV the job returns False.
OldcsvFindMatchingCsv ==
    /\ ocPc = "find"
    /\ IF ocJob.csv = "none"
       THEN OldcsvReturn(ocJob, "False")
       ELSE /\ ocPc' = "temp"
            /\ UNCHANGED << ocJob, ocReturned, success_count >>
    /\ UNCHANGED << ocWalk, total_count >>
    /\ UNCHANGED outsideOldcsv

\* lines 99-100, inside the try block: the temp file is created and its
\* name bound to temp_xml, or the creation raises and temp_xml stays
\* unbound.
OldcsvTempFile ==
    /\ ocPc = "temp"
    /\ \E outcome \in FileOutcomes :
         IF outcome = "ok"
         THEN /\ ocJob' = [ocJob EXCEPT !.temp_xml = "bound",
                                        !.tempFile = "exists"]
              /\ ocPc' = "extract"
              /\ UNCHANGED << ocReturned, success_count >>
         ELSE OldcsvRaise(ocJob, "temp")
    /\ UNCHANGED << ocWalk, total_count >>
    /\ UNCHANGED outsideOldcsv

\* line 105: extract_chapters runs mkvextract.
OldcsvExtractChapters ==
    /\ ocPc = "extract"
    /\ \E outcome \in RunOutcomes :
         LET job == [ocJob EXCEPT !.tools = Append(@, "mkvextract")]
         IN  IF extract_chapters_raises(outcome)
             THEN OldcsvRaise(job, "extract")
             ELSE /\ ocJob' = [job EXCEPT !.completed = @ \cup {"extract"}]
                  /\ ocPc' = "read"
                  /\ UNCHANGED << ocReturned, success_count >>
    /\ UNCHANGED << ocWalk, total_count >>
    /\ UNCHANGED outsideOldcsv

\* line 109: read_chapters_from_csv raises for a file it cannot read, and
\* returns the empty list for a file without data rows.
OldcsvReadChapters ==
    /\ ocPc = "read"
    /\ IF ocJob.csv = "unreadable"
       THEN OldcsvRaise(ocJob, "read")
       ELSE /\ ocJob' = [ocJob EXCEPT !.completed = @ \cup {"read"}]
            /\ ocPc' = "update"
            /\ UNCHANGED << ocReturned, success_count >>
    /\ UNCHANGED << ocWalk, total_count >>
    /\ UNCHANGED outsideOldcsv

\* line 110: update_xml_chapters parses the temp file (ET.parse raises for
\* text that is not well-formed), sets the titles of the atoms it finds a
\* record for and writes the file; with no records no atom is matched.
OldcsvUpdateXml ==
    /\ ocPc = "update"
    /\ \E wellFormed \in BOOLEAN, unmatched \in BOOLEAN :
         IF ~wellFormed
         THEN OldcsvRaise(ocJob, "update")
         ELSE /\ ocJob' = [ocJob EXCEPT
                             !.completed = @ \cup {"update"},
                             !.partial = unmatched \/ ocJob.csv = "empty"]
              /\ ocPc' = "write"
              /\ UNCHANGED << ocReturned, success_count >>
    /\ UNCHANGED << ocWalk, total_count >>
    /\ UNCHANGED outsideOldcsv

\* line 113: write_chapters runs mkvpropedit.
OldcsvWriteChapters ==
    /\ ocPc = "write"
    /\ \E outcome \in RunOutcomes :
         LET job == [ocJob EXCEPT !.tools = Append(@, "mkvpropedit"),
                                  !.writeRc = outcome]
         IN  IF write_chapters_raises(outcome)
             THEN OldcsvRaise(job, "write")
             ELSE /\ ocJob' = [job EXCEPT !.completed = @ \cup {"write"}]
                  /\ ocPc' = "remove"
                  /\ UNCHANGED << ocReturned, success_count >>
    /\ UNCHANGED << ocWalk, total_count >>
    /\ UNCHANGED outsideOldcsv

\* lines 116-118: os.remove(temp_xml), still inside the try block, and
\* return True.
OldcsvRemoveTemp ==
    /\ ocPc = "remove"
    /\ \E outcome \in FileOutcomes :
         IF outcome = "ok"
         THEN OldcsvReturn([ocJob EXCEPT !.tempFile = "absent"], "True")
         ELSE OldcsvRaise(ocJob, "remove")
    /\ UNCHANGED << ocWalk, total_count >>
    /\ UNCHANGED outsideOldcsv

\* lines 120-124, the except clause: os.path.exists(temp_xml) raises
\* UnboundLocalError when temp_xml was never bound, and os.remove may raise;
\* both leave process_mkv_file, process_directory and main, which catch
\* nothing.
OldcsvExcept ==
    /\ ocPc = "except"
    /\ \E outcome \in FileOutcomes :
         IF ocJob.temp_xml = "unbound" \/
            (ocJob.tempFile = "exists" /\ outcome = "oserror")
         THEN /\ ocJob' = [ocJob EXCEPT !.result = "escaped"]
              /\ ocPc' = "crashed"
              /\ UNCHANGED << ocReturned, success_count >>
         ELSE OldcsvReturn([ocJob EXCEPT !.tempFile = "absent"], "False")
    /\ UNCHANGED << ocWalk, total_count >>
    /\ UNCHANGED outsideOldcsv

\* process_directory returns its counts and main, lines 155-176, adds them
\* to its totals and reports them when there was any file.
OldcsvReport ==
    /\ ocPc = "walk"
    /\ ocWalk = 0
    /\ ocPc' = IF total_count > 0 THEN "reported" ELSE "nothing"
    /\ UNCHANGED << ocWalk, ocJob, ocReturned, success_count, total_count >>
    /\ UNCHANGED outsideOldcsv

NextOldcsv ==
    \/ OldcsvWalk
    \/ OldcsvFindMatchingCsv
    \/ OldcsvTempFile
    \/ OldcsvExtractChapters
    \/ OldcsvReadChapters
    \/ OldcsvUpdateXml
    \/ OldcsvWriteChapters
    \/ OldcsvRemoveTemp
    \/ OldcsvExcept
    \/ OldcsvReport

\* One directory argument with up to MaxMkv .mkv files under it.
InitOldcsv ==
    /\ ocWalk \in 0..MaxMkv
    /\ ocPc = "walk"
    /\ ocJob = NoOldcsvJob
    /\ ocReturned = << >>
    /\ success_count = 0
    /\ total_count = 0
    /\ ConvertIdle
    /\ ChaptersIdle
    /\ ReconIdle
    /\ NewcsvIdle
    /\ EmbedIdle
    /\ ExtractIdle
    /\ NormIdle

SpecOldcsv == InitOldcsv /\ [][NextOldcsv]_vars

(* ---------------------------------------------------------------------- *)
(* Claims about write_chapters_for_oldcsv                                  *)
(* ---------------------------------------------------------------------- *)
Invoked(job, tool) == \E k \in DOMAIN job.tools : job.tools[k] = tool

ReturnedTrue == { i \in DOMAIN ocReturned : ocReturned[i].result = "True" }

\* C21: a job of write_chapters_for_oldcsv.process_mkv_file whose record
\* set is empty or unreadable returns False and has not invoked the
\* write-back tool mkvpropedit; a job in which nothing raised returns True
\* even when some atoms found no record.
C21_FailsOnEmptyOrUnreadable ==
    \A i \in DOMAIN ocReturned :
        LET job == ocReturned[i]
        IN  /\ job.csv \in {"empty", "unreadable"} =>
                /\ job.result = "False"
                /\ ~Invoked(job, "mkvpropedit")
            /\ (job.partial /\ job.raisedIn = "none") => job.result = "True"

\* C23: a job whose mkvpropedit exits non-zero returns False; a job returns
\* True only if chapter extraction, record-set read, markup update and
\* write-back all completed (mkvpropedit exited with 0); success_count is
\* the number of jobs that returned True and is never above total_count,
\* and when main reports, total_count is the number of jobs that returned.
C23_SuccessMeansAllStepsDone ==
    /\ \A i \in DOMAIN ocReturned :
           LET job == ocReturned[i]
           IN  /\ job.writeRc = "rcfail" => job.result = "False"
               /\ job.result = "True" =>
                      /\ job.completed = OldcsvSteps
                      /\ job.writeRc = "rc0"
                      /\ job.tools = << "mkvextract", "mkvpropedit" >>
    /\ ocJob.writeRc = "rcfail" => ocPc \in {"except", "crashed"}
    /\ success_count = Cardinality(ReturnedTrue)
    /\ success_count <= total_count
    /\ ocPc = "reported" => total_count = Len(ocReturned)

\* C23 witness: two jobs returned and were reported, the first True, the
\* second False after mkvpropedit exited non-zero: 1 of 2.
C23_Witness ==
    /\ ocPc = "reported"
    /\ Len(ocReturned) = 2
    /\ ocReturned[1].result = "True"
    /\ ocReturned[2].writeRc = "rcfail"
    /\ ocReturned[2].completed = {"extract", "read", "update"}
    /\ ocReturned[2].result = "False"
    /\ success_count = 1
    /\ total_count = 2

\* C28: for every job of process_mkv_file that has a matching CSV, the temp
\* markup file does not exist when the job returns, whichever step failed
\* or if all succeeded, and no exception leaves the job.
C28_TempGoneAndNothingEscapes ==
    /\ \A i \in DOMAIN ocReturned :
           ocReturned[i].csv # "none" => ocReturned[i].tempFile = "absent"
    /\ ocPc # "crashed"

(* ====================================================================== *)
(* Part 5: write_chapters.py                                               *)
(* ====================================================================== *)
\* Mutant: subprocess.run without check=True, a non-zero exit status raises
\* nothing.
check_raises_never(outcome) == FALSE

\* write_chapters_to_mkv, lines 41-43: with check=True a non-zero exit
\* status raises CalledProcessError.
check_raises(outcome) == outcome = "rcfail"

\* process_mkv_file returns and main's loop goes on.
NewcsvReturn(job, ended) ==
    /\ wcDone' = Append(wcDone, [job EXCEPT !.ended = ended])
    /\ wcJob' = NoNewcsvJob
    /\ wcPc' = "main"

\* An exception that nothing catches leaves process_mkv_file and main.
NewcsvEscape(job, where) ==
    /\ wcJob' = [job EXCEPT !.raisedIn = where, !.ended = "escaped"]
    /\ wcPc' = "crashed"
    /\ UNCHANGED wcDone

\* main, lines 135-136, and process_mkv_file, line 85: the next MKV file,
\* with or without its _chapters.csv and its _chapters.xml.
NewcsvProcessMkvFile ==
    /\ wcPc = "main"
    /\ wcFiles > 0
    /\ wcFiles' = wcFiles - 1
    /\ \E csv \in BOOLEAN, xml \in BOOLEAN :
         wcJob' = [NoNewcsvJob EXCEPT !.csvBefore = csv, !.xmlBefore = xml,
                                      !.csv = csv, !.xml = xml]
    /\ wcPc' = "check"
    /\ UNCHANGED wcDone
    /\ UNCHANGED outsideNewcsv

\* lines 88-89: check_required_files.
NewcsvCheckRequiredFiles ==
    /\ wcPc = "check"
    /\ IF ~wcJob.csv \/ ~wcJob.xml
       THEN NewcsvReturn(wcJob, "skipped")
       ELSE /\ wcPc' = "update"
            /\ UNCHANGED << wcJob, wcDone >>
    /\ UNCHANGED wcFiles
    /\ UNCHANGED outsideNewcsv

\* line 92: update_chapter_xml reads the CSV, parses the XML and writes it
\* again; what it raises (open, KeyError, ParseError, AttributeError, the
\* write) nothing catches.
NewcsvUpdateChapterXml ==
    /\ wcPc = "update"
    /\ \E raises \in BOOLEAN :
         IF raises
         THEN NewcsvEscape(wcJob, "update")
         ELSE /\ wcPc' = "run"
              /\ UNCHANGED << wcJob, wcDone >>
    /\ UNCHANGED wcFiles
    /\ UNCHANGED outsideNewcsv

\* write_chapters_to_mkv, lines 41-43 and 51-56: mkvpropedit is run; a
\* non-zero exit and a missing tool are reported, any other OSError at the
\* start of the tool is left uncaught.
NewcsvRunMkvpropedit ==
    /\ wcPc = "run"
    /\ \E outcome \in RunOutcomes, notFound \in BOOLEAN :
         LET job == [wcJob EXCEPT !.tools = Append(@, "mkvpropedit"),
                                  !.rc = outcome]
         IN  IF check_raises(outcome)
             THEN NewcsvReturn(job, "failed")
             ELSE IF outcome = "oserror"
             THEN IF notFound
                  THEN NewcsvReturn(job, "notfound")
                  ELSE NewcsvEscape(job, "run")
             ELSE /\ wcJob' = job
                  /\ wcPc' = "unlink"
                  /\ UNCHANGED wcDone
    /\ UNCHANGED wcFiles
    /\ UNCHANGED outsideNewcsv

\* lines 47-49: xml_path.unlink() and csv_path.unlink(); an OSError of
\* either (other than FileNotFoundError) is left uncaught.
NewcsvUnlink ==
    /\ wcPc = "unlink"
    /\ \E xmlOutcome \in FileOutcomes, csvOutcome \in FileOutcomes :
         IF xmlOutcome = "oserror"
         THEN NewcsvEscape(wcJob, "unlink")
         ELSE IF csvOutcome = "oserror"
         THEN NewcsvEscape([wcJob EXCEPT !.xml = FALSE], "unlink")
         ELSE NewcsvReturn([wcJob EXCEPT !.xml = FALSE, !.csv = FALSE],
                           "deleted")
    /\ UNCHANGED wcFiles
    /\ UNCHANGED outsideNewcsv

\* line 138: all files are processed.
NewcsvCompleted ==
    /\ wcPc = "main"
    /\ wcFiles = 0
    /\ wcPc' = "completed"
    /\ UNCHANGED << wcFiles, wcJob, wcDone >>
    /\ UNCHANGED outsideNewcsv

NextNewcsv ==
    \/ NewcsvProcessMkvFile
    \/ NewcsvCheckRequiredFiles
    \/ NewcsvUpdateChapterXml
    \/ NewcsvRunMkvpropedit
    \/ NewcsvUnlink
    \/ NewcsvCompleted

\* main after line 134, with 1 to MaxMkv files collected.
InitNewcsv ==
    /\ wcFiles \in 1..MaxMkv
    /\ wcPc = "main"
    /\ wcJob = NoNewcsvJob
    /\ wcDone = << >>
    /\ ConvertIdle
    /\ ChaptersIdle
    /\ ReconIdle
    /\ OldcsvIdle
    /\ EmbedIdle
    /\ ExtractIdle
    /\ NormIdle

SpecNewcsv == InitNewcsv /\ [][NextNewcsv]_vars

(* ---------------------------------------------------------------------- *)
(* Claims about write_chapters                                             *)
(* ---------------------------------------------------------------------- *)
\* The jobs of write_chapters that are over, the one an exception left
\* included.
NewcsvEnded ==
    { wcDone[i] : i \in DOMAIN wcDone } \cup
        (IF wcPc = "crashed" THEN {wcJob} ELSE {})

FilesKept(job) == job.csv = job.csvBefore /\ job.xml = job.xmlBefore

\* C22: in write_chapters.process_mkv_file the CSV and the XML are deleted
\* only after mkvpropedit exited with 0 for that MKV file; if the CSV or the
\* XML is missing, update_chapter_xml raises, or mkvpropedit fails or cannot
\* be started, each of the two files that existed before the job exists
\* after it.
C22_DeletedOnlyAfterWriteBack ==
    /\ ~FilesKept(wcJob) => wcJob.rc = "rc0"
    /\ \A job \in NewcsvEnded :
           /\ ~FilesKept(job) => job.rc = "rc0"
           /\ job.ended = "deleted" =>
                  /\ job.rc = "rc0"
                  /\ job.tools = << "mkvpropedit" >>
           /\ ( \/ ~job.csvBefore
                \/ ~job.xmlBefore
                \/ job.raisedIn \in {"update", "run"}
                \/ job.rc \in {"rcfail", "oserror"} ) => FilesKept(job)

\* C22 witness: of two jobs with both files, the first deleted them after
\* mkvpropedit exited with 0, the second kept them after it exited non-zero.
C22_Witness ==
    /\ wcPc = "completed"
    /\ Len(wcDone) = 2
    /\ wcDone[1].csvBefore /\ wcDone[1].xmlBefore
    /\ wcDone[1].ended = "deleted"
    /\ ~wcDone[1].csv /\ ~wcDone[1].xml
    /\ wcDone[2].rc = "rcfail"
    /\ wcDone[2].ended = "failed"
    /\ wcDone[2].csv /\ wcDone[2].xml

(* ====================================================================== *)
(* Part 6: embedded_mkv_chapters.py, main                                  *)
(* ====================================================================== *)
MaxPbf == 2     \* at most this many arguments

\* convert_pbf_to_chapters: no encoding reads the file, no line is a
\* bookmark, the chapter file is written, or opening it for writing
\* raises OSError.
ConvertOutcomes == {"unreadable", "nobookmarks", "written", "oserror"}

\* The work on one argument is over and the loop goes on.
EmbedContinue(job, ended) ==
    /\ emDone' = Append(emDone, [job EXCEPT !.ended = ended])
    /\ emJob' = NoEmbedJob
    /\ emPc' = "loop"

\* An exception reaches main's except clause, lines 198-200: the traceback
\* is printed and main is over.
EmbedExcept(job) ==
    /\ emJob' = [job EXCEPT !.ended = "excepted"]
    /\ emPc' = "excepted"
    /\ UNCHANGED emDone

\* main, lines 158-165: find_cli_tool looks for mkvpropedit, and main
\* returns when it is not found or no argument is given.
EmbedFindCliTool ==
    /\ emPc = "start"
    /\ \E found \in BOOLEAN :
         emPc' = IF ~found THEN "noTool"
                 ELSE IF emArgs = 0 THEN "usage"
                 ELSE "loop"
    /\ UNCHANGED << emArgs, emJob, emDone >>
    /\ UNCHANGED outsideEmbed

\* lines 167-173: the next argument; one that is no .pbf file is skipped.
EmbedNextArg ==
    /\ emPc = "loop"
    /\ emArgs > 0
    /\ emArgs' = emArgs - 1
    /\ \E isPbf \in BOOLEAN :
         IF ~isPbf
         THEN EmbedContinue(NoEmbedJob, "notPbf")
         ELSE /\ emPc' = "convert"
              /\ UNCHANGED << emJob, emDone >>
    /\ UNCHANGED outsideEmbed

\* lines 175-178: convert_pbf_to_chapters; without a chapter file the work
\* on this bookmark file is broken off.
EmbedConvertPbfToChapters ==
    /\ emPc = "convert"
    /\ \E outcome \in ConvertOutcomes :
         IF outcome \in {"unreadable", "nobookmarks"}
         THEN EmbedContinue(emJob, "noChapters")
         ELSE IF outcome = "oserror"
         THEN EmbedExcept(emJob)
         ELSE /\ emJob' = [emJob EXCEPT !.chapter_file = "exists"]
              /\ emPc' = "mkv"
              /\ UNCHANGED emDone
    /\ UNCHANGED emArgs
    /\ UNCHANGED outsideEmbed

\* lines 181-191: without the MKV file beside the bookmark file the work is
\* broken off, and the chapter file is left.
EmbedMkvExists ==
    /\ emPc = "mkv"
    /\ \E mkvExists \in BOOLEAN :
         IF ~mkvExists
         THEN EmbedContinue(emJob, "mkvNotFound")
         ELSE /\ emPc' = "write"
              /\ UNCHANGED << emJob, emDone >>
    /\ UNCHANGED emArgs
    /\ UNCHANGED outsideEmbed

\* line 193 and set_chapters_inplace, lines 132-152: mkvpropedit is run
\* with check=True; CalledProcessError gives False, an OSError at the start
\* of the tool is not caught there.
EmbedSetChaptersInplace ==
    /\ emPc = "write"
    /\ \E outcome \in RunOutcomes :
         LET job == [emJob EXCEPT !.tools = Append(@, "mkvpropedit"),
                                  !.rc = outcome]
         IN  IF outcome = "rcfail"
             THEN EmbedContinue(job, "writeFailed")
             ELSE IF outcome = "oserror"
             THEN EmbedExcept(job)
             ELSE /\ emJob' = job
                  /\ emPc' = "unlink"
                  /\ UNCHANGED emDone
    /\ UNCHANGED emArgs
    /\ UNCHANGED outsideEmbed

\* lines 194-196: chapter_file.unlink() after a successful write-back.
EmbedUnlink ==
    /\ emPc = "unlink"
    /\ \E outcome \in FileOutcomes :
         IF outcome = "ok"
         THEN EmbedContinue([emJob EXCEPT !.chapter_file = "removed"],
                            "writeSucceeded")
         ELSE EmbedExcept(emJob)
    /\ UNCHANGED emArgs
    /\ UNCHANGED outsideEmbed

\* The loop is over.
EmbedCompleted ==
    /\ emPc = "loop"
    /\ emArgs = 0
    /\ emPc' = "completed"
    /\ UNCHANGED << emArgs, emJob, emDone >>
    /\ UNCHANGED outsideEmbed

NextEmbed ==
    \/ EmbedFindCliTool
    \/ EmbedNextArg
    \/ EmbedConvertPbfToChapters
    \/ EmbedMkvExists
    \/ EmbedSetChaptersInplace
    \/ EmbedUnlink
    \/ EmbedCompleted

InitEmbed ==
    /\ emArgs \in 0..MaxPbf
    /\ emPc = "start"
    /\ emJob = NoEmbedJob
    /\ emDone = << >>
    /\ ConvertIdle
    /\ ChaptersIdle
    /\ ReconIdle
    /\ OldcsvIdle
    /\ NewcsvIdle
    /\ ExtractIdle
    /\ NormIdle

SpecEmbed == InitEmbed /\ [][NextEmbed]_vars

(* ---------------------------------------------------------------------- *)
(* Claims about embedded_mkv_chapters.main                                 *)
(* ---------------------------------------------------------------------- *)
EmbedTerminal == {"writeSucceeded", "writeFailed", "mkvNotFound"}

\* C24: once the job of a bookmark file is over (write-back succeeded,
\* write-back failed, or the MKV file not found), the temporary chapter
\* file written for it no longer exists.
C24_ChapterFileGoneAtEnd ==
    \A i \in DOMAIN emDone :
        emDone[i].ended \in EmbedTerminal =>
            emDone[i].chapter_file # "exists"

(* ====================================================================== *)
(* Part 7: extract_video.py                                                *)
(* ====================================================================== *)
MaxChapterJobs == 2     \* at most this many bookmarks in an MKV file

FileExists(state) == state \in {"exists", "partial", "data"}

\* Mutant: the output file is left where it is when the normalization
\* raised.
output_left_after_failure(output) == output

\* extract_chapter, lines 179-180: the output file is unlinked if it exists.
output_after_failure(output) ==
    IF FileExists(output) THEN "absent" ELSE output

\* process_mkv_file, line 209: a chapter whose output file exists is
\* skipped.
SkipsChapter(output) == FileExists(output)

IsFilenameChar(c) == c # "/"

\* process_mkv_file, line 206: sanitize_filename takes the characters out
\* of the title that no file name may hold; of these the titles here have
\* the "/".
sanitize_filename(chapter_name) == SelectSeq(chapter_name, IsFilenameChar)

\* line 207: the output file of a chapter, by its name in the folder of the
\* MKV file.
OutputFile(chapter_name) == sanitize_filename(chapter_name)

\* get_chapters, lines 64-73: what parse_chapter_file made of the text
\* mkvextract printed, and no chapter when run_command returned None.
get_chapters(outcome, parsed) ==
    IF run_command(outcome) THEN parsed.list ELSE << >>

\* The chapter the loop of process_mkv_file stands at, counted from 1.
CurrentIndex(file) == Len(file.list) - file.chapters + 1

\* The folder of the MKV file after an extract_chapter call: the output
\* file is there if the call left one.
DirAfter(file, job) ==
    IF FileExists(job.output)
    THEN file.dir \cup {OutputFile(job.chapter_name)}
    ELSE file.dir

\* extract_chapter is over: it returned into process_mkv_file, lines
\* 214-215, or what it raised left process_mkv_file and was caught by main,
\* lines 245-248, which goes on with the next MKV file.
ExtractEnd(job, how) ==
    /\ exDone' = Append(exDone, [job EXCEPT !.returned = how])
    /\ exJob' = NoExtractJob
    /\ IF how = "raised"
       THEN /\ exSuccess' = FALSE
            /\ exFile' = [exFile EXCEPT !.dir = DirAfter(exFile, job),
                                        !.ended = "raised"]
            /\ exPc' = "files"
       ELSE /\ exFile' = [exFile EXCEPT
                             !.chapters = @ - 1,
                             !.success = @ /\ how = "True",
                             !.dir = DirAfter(exFile, job)]
            /\ exPc' = "chapter"
            /\ UNCHANGED exSuccess

\* The try block of extract_chapter is left towards the finally clause.
ExtractLeaveTry(job, pending) ==
    /\ exJob' = [job EXCEPT !.pending = pending]
    /\ exPc' = "finally"
    /\ UNCHANGED << exFile, exDone, exSuccess >>

\* main, lines 234-237: check_dependencies; with a command missing main
\* returns before any file is looked at.
ExtractCheckDependencies ==
    /\ exPc = "start"
    /\ \E missing \in BOOLEAN :
         exPc' = IF missing THEN "missingCommands" ELSE "files"
    /\ UNCHANGED << exFiles, exFile, exJob, exDone, exSuccess >>
    /\ UNCHANGED outsideExtract

\* The titles a bookmark of an MKV file may carry: two of them give the
\* same file name.
ChapterTitleChoices == { << "A" >>, << "A", "/" >>, << "B" >> }

\* The bookmarks embedded_mkv_chapters decoded for an MKV file: up to
\* MaxChapterJobs of them a second apart, the first at zero or a second
\* after it; none for an MKV file without chapters.
MkvBookmarkChoices ==
    UNION { { [i \in 1..n |-> [td |-> (i - 1 + first) * 1000,
                               name |-> titles[i]]] :
                titles \in [1..n -> ChapterTitleChoices], first \in {0, 1} } :
            n \in 0..MaxChapterJobs }

\* What mkvextract prints for the MKV file: the chapter file that
\* convert_pbf_to_chapters wrote and mkvpropedit put into it.
MkvChapterText(marks) ==
    IF marks = << >> THEN << >> ELSE WriteChapters(InsertFirst(marks))

\* The output files that may lie in the folder of the MKV file before
\* process_mkv_file begins.
ExistingChoices == SUBSET { << "A" >> }

\* The MKV files: the bookmarks put into each, and what parse_chapter_file
\* makes of its chapter text.
MkvFileChoices ==
    { [ embedded |-> IF marks = << >> THEN marks ELSE InsertFirst(marks),
        parsed |-> parse_chapter_file(MkvChapterText(marks)) ] :
      marks \in MkvBookmarkChoices }

\* main, lines 240-243, and process_mkv_file, lines 196-202: the next MKV
\* file; get_chapters runs mkvextract, and with no chapter to extract
\* process_mkv_file returns False.
ExtractProcessMkvFile ==
    /\ exPc = "files"
    /\ exFiles > 0
    /\ exFiles' = exFiles - 1
    /\ \E outcome \in RunOutcomes :
         IF ~run_command(outcome)
         THEN /\ exSuccess' = FALSE
              /\ exFile' = [NoExtractFile EXCEPT !.success = FALSE,
                                                 !.ended = "returned"]
              /\ UNCHANGED exPc
         ELSE \E mkv \in MkvFileChoices, existing \in ExistingChoices :
                LET chapterList == get_chapters(outcome, mkv.parsed)
                    file == [NoExtractFile EXCEPT
                                !.embedded = mkv.embedded,
                                !.list = chapterList,
                                !.chapters = Len(chapterList),
                                !.before = existing,
                                !.dir = existing]
                IN  IF chapterList = << >>
                    THEN /\ exSuccess' = FALSE
                         /\ exFile' = [file EXCEPT !.success = FALSE,
                                                   !.ended = "returned"]
                         /\ UNCHANGED exPc
                    ELSE /\ exFile' = file
                         /\ exPc' = "chapter"
                         /\ UNCHANGED exSuccess
    /\ exDone' = << >>
    /\ UNCHANGED exJob
    /\ UNCHANGED outsideExtract

\* process_mkv_file, lines 203-214 and 225: the next chapter is skipped
\* when its output file exists and handed to extract_chapter otherwise;
\* after the last one process_mkv_file returns its success to main.
ExtractNextChapter ==
    /\ exPc = "chapter"
    /\ IF exFile.chapters = 0
       THEN /\ exSuccess' = (exSuccess /\ exFile.success)
            /\ exFile' = [exFile EXCEPT !.ended = "returned"]
            /\ exPc' = "files"
            /\ UNCHANGED exJob
       ELSE LET i == CurrentIndex(exFile)
                chapter == exFile.list[i]
                output == IF OutputFile(chapter.name) \in exFile.dir
                          THEN "data" ELSE "absent"
            IN  IF SkipsChapter(output)
                THEN /\ exFile' = [exFile EXCEPT !.chapters = @ - 1,
                                                 !.skipped = @ \cup {i}]
                     /\ UNCHANGED << exPc, exJob, exSuccess >>
                ELSE /\ exJob' = [NoExtractJob EXCEPT
                                     !.output = output,
                                     !.chapter_number = chapter.number,
                                     !.chapter_name = chapter.name]
                     /\ exFile' = [exFile EXCEPT !.attempted = @ \cup {i}]
                     /\ exPc' = "temp"
                     /\ UNCHANGED exSuccess
    /\ UNCHANGED << exFiles, exDone >>
    /\ UNCHANGED outsideExtract

\* extract_chapter, line 155, before the try block: get_temp_path creates
\* the empty temp file, or raises.
ExtractGetTempPath ==
    /\ exPc = "temp"
    /\ \E outcome \in FileOutcomes :
         IF outcome = "ok"
         THEN /\ exJob' = [exJob EXCEPT !.temp = "exists"]
              /\ exPc' = "encode"
              /\ UNCHANGED << exFile, exDone, exSuccess >>
         ELSE ExtractEnd(exJob, "raised")
    /\ UNCHANGED exFiles
    /\ UNCHANGED outsideExtract

\* lines 162-171: run_command runs HandBrakeCLI and returns None for a
\* non-zero exit and for a missing command; then the temp file, if the tool
\* left it, is unlinked and False returned.
ExtractEncode ==
    /\ exPc = "encode"
    /\ \E outcome \in RunOutcomes, tempLeft \in BOOLEAN,
          unlinked \in FileOutcomes :
         LET job == [exJob EXCEPT !.tools = Append(@, "HandBrakeCLI")]
         IN  IF outcome = "rc0"
             THEN /\ exJob' = job
                  /\ exPc' = "normalize"
                  /\ UNCHANGED << exFile, exDone, exSuccess >>
             ELSE IF ~tempLeft
             THEN ExtractLeaveTry([job EXCEPT !.temp = "absent"], "False")
             ELSE IF unlinked = "ok"
             THEN ExtractLeaveTry([job EXCEPT !.temp = "absent"], "False")
             ELSE ExtractLeaveTry([job EXCEPT !.unlinkFailed = TRUE], "raise")
    /\ UNCHANGED exFiles
    /\ UNCHANGED outsideExtract

\* lines 174-183: normalize_audio writes the output file from the temp
\* file; when it raises, what it left of the output file is unlinked and
\* False returned.
ExtractNormalizeAudio ==
    /\ exPc = "normalize"
    /\ \E raises \in BOOLEAN, left \in {"absent", "partial"},
          unlinked \in FileOutcomes :
         LET job == [exJob EXCEPT !.tools = Append(@, "ffmpeg-normalize")]
         IN  IF ~raises
             THEN ExtractLeaveTry([job EXCEPT !.output = "data"], "True")
             ELSE IF FileExists(left) /\ unlinked = "oserror"
             THEN ExtractLeaveTry([job EXCEPT !.output = left], "raise")
             ELSE ExtractLeaveTry(
                      [job EXCEPT !.output = output_after_failure(left)],
                      "False")
    /\ UNCHANGED exFiles
    /\ UNCHANGED outsideExtract

\* lines 184-188, the finally clause: temp_output.unlink(); only
\* FileNotFoundError is passed over, another OSError is raised in place of
\* the return.
ExtractFinally ==
    /\ exPc = "finally"
    /\ \E outcome \in FileOutcomes :
         IF exJob.temp = "exists" /\ outcome = "oserror"
         THEN ExtractEnd([exJob EXCEPT !.unlinkFailed = TRUE], "raised")
         ELSE ExtractEnd([exJob EXCEPT !.temp = "absent"],
                         IF exJob.pending = "raise" THEN "raised"
                         ELSE exJob.pending)
    /\ UNCHANGED exFiles
    /\ UNCHANGED outsideExtract

\* main, lines 250-253: every file was taken.
ExtractCompleted ==
    /\ exPc = "files"
    /\ exFiles = 0
    /\ exPc' = "completed"
    /\ UNCHANGED << exFiles, exFile, exJob, exDone, exSuccess >>
    /\ UNCHANGED outsideExtract

NextExtract ==
    \/ ExtractCheckDependencies
    \/ ExtractProcessMkvFile
    \/ ExtractNextChapter
    \/ ExtractGetTempPath
    \/ ExtractEncode
    \/ ExtractNormalizeAudio
    \/ ExtractFinally
    \/ ExtractCompleted

\* main after the usage check, with up to MaxMkv MKV files to find.
InitExtract ==
    /\ exFiles \in 0..MaxMkv
    /\ exPc = "start"
    /\ exFile = NoExtractFile
    /\ exJob = NoExtractJob
    /\ exDone = << >>
    /\ exSuccess = TRUE
    /\ ConvertIdle
    /\ ChaptersIdle
    /\ ReconIdle
    /\ OldcsvIdle
    /\ NewcsvIdle
    /\ EmbedIdle
    /\ NormIdle

SpecExtract == InitExtract /\ [][NextExtract]_vars

(* ---------------------------------------------------------------------- *)
(* Claims about extract_video                                              *)
(* ---------------------------------------------------------------------- *)
\* C30: after extract_chapter returned False (the encode failed or the
\* normalization raised), neither the temp file nor the chapter's output
\* file exists, so that the next run does not skip the chapter; after it
\* returned True, the output file exists and the temp file does not.
C30_FilesAfterExtractChapter ==
    \A i \in DOMAIN exDone :
        LET job == exDone[i]
        IN  /\ job.returned = "False" =>
                /\ ~FileExists(job.temp)
                /\ ~FileExists(job.output)
                /\ ~SkipsChapter(job.output)
            /\ job.returned = "True" =>
                /\ job.output = "data"
                /\ ~FileExists(job.temp)
                /\ job.tools = << "HandBrakeCLI", "ffmpeg-normalize" >>

\* C30 witness: of the two chapters of a file the first was extracted, and
\* for the second the normalization raised after the encode; both calls
\* returned.
C30_Witness ==
    /\ Len(exDone) = 2
    /\ exDone[1].returned = "True"
    /\ exDone[1].output = "data"
    /\ exDone[2].returned = "False"
    /\ exDone[2].tools = << "HandBrakeCLI", "ffmpeg-normalize" >>
    /\ exDone[2].output = "absent"
    /\ exDone[2].temp = "absent"

(* ====================================================================== *)
(* Part 8: normalize_audio.py, main's loop                                 *)
(* ====================================================================== *)
MaxVideos == 3     \* at most this many files in video_files

\* shutil.move(temp_file, video_file, shutil.copy2): the temp file takes
\* the place of the video file (os.rename, or copy2 and os.unlink); copy2
\* raises before or after it has begun to overwrite the video file; or the
\* copy is made and os.unlink of the temp file raises.
MoveOutcomes == {"moved", "copyFailedEarly", "copyFailedLate", "unlinkFailed"}

\* The pass for one file is over and the loop goes on (line 57 or 63).
NormContinue(job, ended) ==
    /\ naDone' = Append(naDone, [job EXCEPT !.ended = ended])
    /\ naJob' = NoNormJob
    /\ naPc' = "loop"

\* An exception raised inside the try block, lines 52-58.
NormRaise(job, where) ==
    /\ naJob' = [job EXCEPT !.raisedIn = where]
    /\ naPc' = "except"
    /\ UNCHANGED naDone

\* An exception that nothing catches leaves main.
NormEscape(job) ==
    /\ naJob' = [job EXCEPT !.ended = "escaped"]
    /\ naPc' = "crashed"
    /\ UNCHANGED naDone

\* lines 45-50: the next file, and its temp file, created outside the try
\* block.
NormNextFile ==
    /\ naPc = "loop"
    /\ naFiles > 0
    /\ naFiles' = naFiles - 1
    /\ \E outcome \in FileOutcomes :
         IF outcome = "ok"
         THEN /\ naJob' = [NoNormJob EXCEPT !.temp = "exists"]
              /\ naPc' = "normalize"
              /\ UNCHANGED naDone
         ELSE NormEscape([NoNormJob EXCEPT !.raisedIn = "temp"])
    /\ UNCHANGED outsideNorm

\* line 54: normalize_audio(video_file, temp_file) writes the temp file, or
\* raises; then shutil.move is not reached and the video file is as it was.
NormNormalizeAudio ==
    /\ naPc = "normalize"
    /\ \E raises \in BOOLEAN :
         IF raises
         THEN NormRaise(naJob, "normalize")
         ELSE /\ naJob' = [naJob EXCEPT !.normalized = TRUE]
              /\ naPc' = "move"
              /\ UNCHANGED naDone
    /\ UNCHANGED naFiles
    /\ UNCHANGED outsideNorm

\* lines 56-57: shutil.move.
NormMove ==
    /\ naPc = "move"
    /\ \E outcome \in MoveOutcomes :
         IF outcome = "moved"
         THEN NormContinue([naJob EXCEPT !.original = "replaced",
                                         !.temp = "absent"], "completed")
         ELSE IF outcome = "copyFailedEarly"
         THEN NormRaise(naJob, "move")
         ELSE IF outcome = "copyFailedLate"
         THEN NormRaise([naJob EXCEPT !.original = "damaged"], "move")
         ELSE NormRaise([naJob EXCEPT !.original = "replaced",
                                      !.unlinkFailed = TRUE], "move")
    /\ UNCHANGED naFiles
    /\ UNCHANGED outsideNorm

\* lines 58-63, the except clause: the temp file is unlinked if it exists,
\* and what the unlink raises leaves main.
NormExcept ==
    /\ naPc = "except"
    /\ \E outcome \in FileOutcomes :
         IF naJob.temp = "exists" /\ outcome = "oserror"
         THEN NormEscape([naJob EXCEPT !.unlinkFailed = TRUE])
         ELSE NormContinue([naJob EXCEPT !.temp = "absent"], "failed")
    /\ UNCHANGED naFiles
    /\ UNCHANGED outsideNorm

\* lines 65-66: the loop is over.
NormCompleted ==
    /\ naPc = "loop"
    /\ naFiles = 0
    /\ naPc' = "completed"
    /\ UNCHANGED << naFiles, naJob, naDone >>
    /\ UNCHANGED outsideNorm

NextNorm ==
    \/ NormNextFile
    \/ NormNormalizeAudio
    \/ NormMove
    \/ NormExcept
    \/ NormCompleted

\* main at line 44, with 1 to MaxVideos files collected.
InitNorm ==
    /\ naFiles \in 1..MaxVideos
    /\ naPc = "loop"
    /\ naJob = NoNormJob
    /\ naDone = << >>
    /\ ConvertIdle
    /\ ChaptersIdle
    /\ ReconIdle
    /\ OldcsvIdle
    /\ NewcsvIdle
    /\ EmbedIdle
    /\ ExtractIdle

SpecNorm == InitNorm /\ [][NextNorm]_vars

(* ---------------------------------------------------------------------- *)
(* Claims about normalize_audio and about cleanup                          *)
(* ---------------------------------------------------------------------- *)
\* The files normalize_audio is through with, the one an exception left
\* main with included.
NormEnded ==
    { naDone[i] : i \in DOMAIN naDone } \cup
        (IF naPc = "crashed" THEN {naJob} ELSE {})

\* C29: in normalize_audio.main the video file is replaced only by a fully
\* normalized temp file; if the normalization of a file fails, the video
\* file is unchanged, the temp file is removed and the loop goes on with
\* the remaining files; every collected file is attempted.
C29_ReplacedOnlyByNormalized ==
    /\ \A job \in NormEnded :
           /\ job.original \in {"unchanged", "replaced"}
           /\ job.original = "replaced" => job.normalized
           /\ job.raisedIn = "normalize" =>
                  /\ job.original = "unchanged"
                  /\ job.temp = "absent"
                  /\ job.ended = "failed"
    /\ naPc \in {"completed", "crashed"} => naFiles = 0

\* C25: an error while removing a temp file is never raised out of a job
\* and never changes its outcome: in convert2mp4.convert_video the task
\* still ends with the unlink error logged, in extract_video.extract_chapter
\* the call returns what the try block was returning, and in
\* normalize_audio.main the loop goes on with the next file.
C25_CleanupErrorsAreNotRaised ==
    /\ \A j \in JobIds :
           jobs[j].unlinkFailed =>
               /\ jobs[j].pc = "done"
               /\ "unlink_error" \in jobs[j].log
    /\ \A i \in DOMAIN exDone :
           exDone[i].unlinkFailed =>
               /\ exDone[i].pending \in {"True", "False"}
               /\ exDone[i].returned = exDone[i].pending
    /\ naPc = "crashed" => ~naJob.unlinkFailed
    /\ \A i \in DOMAIN naDone :
           (naDone[i].unlinkFailed /\ naDone[i].raisedIn = "normalize") =>
               naDone[i].ended = "failed"

\* C26: when a required external tool is absent, the batch is aborted
\* before dispatch: embedded_mkv_chapters.main and extract_video.main stop
\* at their check with no file taken, no tool run and no file written, and
\* in convert2mp4 no task finds, after the batch has started, that ffprobe,
\* HandBrakeCLI or ffmpeg cannot be started.
C26_AbsentToolAbortsBeforeDispatch ==
    /\ emPc = "noTool" => (emDone = << >> /\ emJob = NoEmbedJob)
    /\ exPc = "missingCommands" =>
           /\ exDone = << >>
           /\ exJob = NoExtractJob
           /\ exFile = NoExtractFile
    /\ \A j \in JobIds :
           /\ jobs[j].vprobe # "oserror"
           /\ jobs[j].rc1 # "oserror"
           /\ jobs[j].rc2 # "oserror"

(* ---------------------------------------------------------------------- *)
(* Claims about the chapters process_mkv_file takes                       *)
(* ---------------------------------------------------------------------- *)
\* Whether the output file of chapter i of the MKV file lay in the folder
\* when process_mkv_file began.
ExistedBefore(file, i) == OutputFile(file.list[i].name) \in file.before

\* C31: in process_mkv_file a chapter is skipped only if its output file
\* existed before the run began, and once process_mkv_file is over, every
\* chapter of the list whose output file was absent at the start was handed
\* to extract_chapter: none is skipped for an output file made for another
\* chapter of the run, and a failed chapter does not stop the others.
C31_AbsentOutputsAreAttempted ==
    /\ \A i \in exFile.skipped : ExistedBefore(exFile, i)
    /\ exFile.ended # "none" =>
         \A i \in DOMAIN exFile.list :
             ~ExistedBefore(exFile, i) => i \in exFile.attempted

\* The extract_chapter calls for the MKV file: those that are over and the
\* one that is running.
ExtractCalls ==
    { exDone[k] : k \in DOMAIN exDone }
        \cup (IF exJob.chapter_number = 0 THEN {} ELSE {exJob})

\* C32: the label of the first chapter that embedded_mkv_chapters inserts
\* at time zero is a default title for is_default_chapter_name, so the
\* inserted chapter of an MKV file is never in the list parse_chapter_file
\* returns, neither by its number nor by its name, and extract_chapter is
\* never called for it.
C32_SyntheticChapterNeverExtracted ==
    /\ is_default_chapter_name(FirstBookmarkName)
    /\ \A i \in DOMAIN exFile.embedded :
         exFile.embedded[i] = SyntheticEntry =>
           /\ \A k \in DOMAIN exFile.list :
                /\ exFile.list[k].number # i
                /\ exFile.list[k].name # FirstBookmarkName
           /\ \A job \in ExtractCalls :
                /\ job.chapter_number # i
                /\ job.chapter_name # FirstBookmarkName

\* C32 witness: an MKV file whose first chapter is the inserted one; the
\* list starts with its chapter 2, which was extracted.
C32_Witness ==
    /\ exFile.embedded # << >>
    /\ exFile.embedded[1] = SyntheticEntry
    /\ Len(exFile.list) = Len(exFile.embedded) - 1
    /\ exFile.list[1].number = 2
    /\ exDone # << >>
    /\ exDone[1].chapter_number = 2
    /\ exDone[1].returned = "True"

====
